---- MODULE Spec2Model ----
(***************************************************************************)
(* Extraction orchestrator and reconciliation of ledger-parse.             *)
(*                                                                         *)
(*   src/src/lib/services/pdf-processor.ts   processDocument,              *)
(*       processNativePDF, processScannedPDF, processWithGemini,           *)
(*       runReconciliation                                                 *)
(*   src/src/lib/services/pdf-type-detector.ts   detectPDFType             *)
(*                                                                         *)
(* Currency values are JavaScript numbers (IEEE-754 binary64).  They are   *)
(* modelled exactly: a number is a sign and a magnitude, the magnitude an  *)
(* arbitrary-precision natural counting units of 2^-60, and every          *)
(* arithmetic operation computes the exact result and rounds it to 53      *)
(* significant bits, ties to even, as the hardware does.                   *)
(***************************************************************************)
EXTENDS Integers, Sequences, FiniteSets, TLC

(***************************************************************************)
(* With(a, F) is F at the value of a, as LET x == a IN F(x) is, with a     *)
(* computed once however often F uses it.                                  *)
(***************************************************************************)
With(a, F(_)) == CHOOSE r \in {F(v) : v \in {a}} : TRUE
With2(a, b, F(_, _)) == CHOOSE r \in {F(v, w) : v \in {a}, w \in {b}} : TRUE

(***************************************************************************)
(* Arbitrary-precision naturals: little-endian sequences of limbs in       *)
(* 0..Base-1 without high zero limbs; << >> is zero.                       *)
(***************************************************************************)
LimbBits == 5 * 3
Base == 2^LimbBits

Limb(a, i) == IF i <= Len(a) THEN a[i] ELSE 0

MaxOf(x, y) == IF x >= y THEN x ELSE y

\* the first n limbs of a without their high zero limbs
RECURSIVE BNormTo(_, _)
BNormTo(a, n) ==
    IF n = 0 THEN << >>
    ELSE IF a[n] = 0 THEN BNormTo(a, n - 1)
    ELSE SubSeq(a, 1, n)

BNorm(a) == With(a, LAMBDA v : BNormTo(v, Len(v)))

RECURSIVE BAddFrom(_, _, _, _)
BAddFrom(a, b, i, c) ==
    IF i > MaxOf(Len(a), Len(b))
    THEN (IF c = 0 THEN << >> ELSE <<c>>)
    ELSE LET s == Limb(a, i) + Limb(b, i) + c
         IN  <<s % Base>> \o BAddFrom(a, b, i + 1, s \div Base)

BAdd(a, b) == With2(a, b, LAMBDA v, w : BAddFrom(v, w, 1, 0))

\* a - b for a >= b
RECURSIVE BSubFrom(_, _, _, _)
BSubFrom(a, b, i, br) ==
    IF i > Len(a) THEN << >>
    ELSE LET d == a[i] - Limb(b, i) - br
         IN  IF d < 0 THEN <<d + Base>> \o BSubFrom(a, b, i + 1, 1)
                      ELSE <<d>> \o BSubFrom(a, b, i + 1, 0)

BSub(a, b) == With2(a, b, LAMBDA v, w : BNorm(BSubFrom(v, w, 1, 0)))

\* -1, 0, 1 as a is below, equal to, above b; compares from limb i downwards
RECURSIVE BCmpFrom(_, _, _)
BCmpFrom(a, b, i) ==
    IF i = 0 THEN 0
    ELSE IF a[i] < b[i] THEN -1
    ELSE IF a[i] > b[i] THEN 1
    ELSE BCmpFrom(a, b, i - 1)

BCmp(a, b) ==
    With2(a, b, LAMBDA v, w :
        IF Len(v) < Len(w) THEN -1
        ELSE IF Len(v) > Len(w) THEN 1
        ELSE BCmpFrom(v, w, Len(v)))

RECURSIVE BMulFrom(_, _, _, _)
BMulFrom(a, k, i, c) ==
    IF i > Len(a)
    THEN (IF c = 0 THEN << >> ELSE <<c>>)
    ELSE LET p == a[i] * k + c
         IN  <<p % Base>> \o BMulFrom(a, k, i + 1, p \div Base)

\* a * k for 0 <= k <= Base
BMulSmall(a, k) == With2(a, k, LAMBDA v, m : BNorm(BMulFrom(v, m, 1, 0)))

\* quotient and remainder of a by k, 0 < k <= Base: long division from limb i
\* downwards, r the remainder so far and q the quotient limbs so far
RECURSIVE BDivFrom(_, _, _, _, _)
BDivFrom(a, k, i, r, q) ==
    IF i = 0 THEN [q |-> BNorm(q), r |-> r]
    ELSE BDivFrom(a, k, i - 1, (r * Base + a[i]) % k, <<(r * Base + a[i]) \div k>> \o q)

BDivSmall(a, k) == With2(a, k, LAMBDA v, m : BDivFrom(v, m, Len(v), 0, << >>))

Zeros(n) == [i \in 1..n |-> 0]

BShiftL(a, d) ==
    With2(a, d, LAMBDA v, n :
        IF v = << >> THEN << >>
        ELSE Zeros(n \div LimbBits) \o BMulSmall(v, 2^(n % LimbBits)))

BShiftR(a, d) ==
    With2(a, d, LAMBDA v, n :
        IF n \div LimbBits >= Len(v) THEN << >>
        ELSE BDivSmall(SubSeq(v, n \div LimbBits + 1, Len(v)), 2^(n % LimbBits)).q)

RECURSIVE IntBitLen(_)
IntBitLen(n) == IF n = 0 THEN 0 ELSE 1 + IntBitLen(n \div 2)

BBitLen(a) ==
    With(a, LAMBDA v :
        IF v = << >> THEN 0
        ELSE LimbBits * (Len(v) - 1) + IntBitLen(v[Len(v)]))

RECURSIVE BFromInt(_)
BFromInt(n) == IF n = 0 THEN << >> ELSE <<n % Base>> \o BFromInt(n \div Base)

RECURSIVE BToIntFrom(_, _)
BToIntFrom(a, i) == IF i > Len(a) THEN 0 ELSE a[i] + Base * BToIntFrom(a, i + 1)

\* only for values known to fit a machine integer
BToInt(a) == With(a, LAMBDA v : BToIntFrom(v, 1))

BIsOdd(a) == With(a, LAMBDA v : v # << >> /\ v[1] % 2 = 1)

(***************************************************************************)
(* binary64 numbers.  MantBits is the significand width of the JavaScript  *)
(* number type; FracLimbs limbs hold the fraction, so one unit is 2^-60:   *)
(* every number the reconciliation produces from amounts of at least one   *)
(* cent is a multiple of it.                                               *)
(***************************************************************************)
MantBits == 53
FracLimbs == 2 * 2
FracBits == FracLimbs * LimbBits

\* m rounded at bit d, q being m without its low d bits: to nearest, ties to
\* even
RoundAt(m, d, q) ==
    With(BCmp(BSub(m, BShiftL(q, d)), BShiftL(<<1>>, d - 1)), LAMBDA c :
        BShiftL(IF c = 1 \/ (c = 0 /\ BIsOdd(q)) THEN BAdd(q, <<1>>) ELSE q, d))

\* round to nearest, ties to even, at MantBits significant bits
Round53(m) ==
    With2(m, BBitLen(m) - MantBits, LAMBDA v, d :
        IF d <= 0 THEN v
        ELSE With(BShiftR(v, d), LAMBDA q : RoundAt(v, d, q)))

Null == [isNull |-> TRUE, neg |-> FALSE, mag |-> << >>]
Num(neg, mag) ==
    With(mag, LAMBDA m : [isNull |-> FALSE, neg |-> (neg /\ m # << >>), mag |-> m])
Zero == Num(FALSE, << >>)

\* an integer-valued number
FromInt(n) ==
    With(n, LAMBDA v :
        Num(v < 0, BShiftL(BFromInt(IF v >= 0 THEN v ELSE -v), FracBits)))

\* x / 100 for an integer-valued machine integer n: the correctly rounded
\* quotient.  One guard limb and a sticky bit carry the remainder into the
\* rounding.
DivInt100(n) ==
    With(n, LAMBDA v :
        With(BDivSmall(BShiftL(BFromInt(IF v >= 0 THEN v ELSE -v), FracBits + LimbBits), 100),
             LAMBDA d :
                Num(v < 0,
                    BShiftR(Round53(BAdd(BShiftL(d.q, 1),
                                         IF d.r = 0 THEN << >> ELSE <<1>>)),
                            LimbBits + 1))))

\* the number a decimal literal with two fraction digits parses to
FromCents(c) == DivInt100(c)

FNeg(x) == With(x, LAMBDA v : Num(~v.neg, v.mag))
FAbs(x) == With(x, LAMBDA v : Num(FALSE, v.mag))

FAdd(x, y) ==
    With2(x, y, LAMBDA v, w :
        IF v.neg = w.neg THEN Num(v.neg, Round53(BAdd(v.mag, w.mag)))
        ELSE With(BCmp(v.mag, w.mag), LAMBDA c :
                 IF c = 0 THEN Zero
                 ELSE Num(IF c = 1 THEN v.neg ELSE w.neg,
                          Round53(IF c = 1 THEN BSub(v.mag, w.mag)
                                           ELSE BSub(w.mag, v.mag)))))

FSub(x, y) == FAdd(x, FNeg(y))

FLess(x, y) ==
    With2(x, y, LAMBDA v, w :
        IF v.neg /\ ~w.neg THEN TRUE
        ELSE IF ~v.neg /\ w.neg THEN FALSE
        ELSE IF v.neg THEN BCmp(v.mag, w.mag) = 1
        ELSE BCmp(v.mag, w.mag) = -1)

FMul100(x) == With(x, LAMBDA v : Num(v.neg, Round53(BMulSmall(v.mag, 100))))

\* Math.round: floor(x + 1/2), computed exactly, as a machine integer
MathRound(x) ==
    With2(x, BShiftL(<<1>>, FracBits - 1), LAMBDA v, half :
        With(BToInt(BShiftR(BAdd(v.mag, half), FracBits)), LAMBDA up :
            IF ~v.neg THEN up
            ELSE IF BSub(v.mag, BShiftL(BShiftR(v.mag, FracBits), FracBits)) = half
            THEN -(up - 1)
            ELSE -up))

\* the binary sum handed on as it is
Round2Unrounded(x) == x

\* Math.round(x * 100) / 100
Round2(x) == DivInt100(MathRound(FMul100(x)))

(***************************************************************************)
(* runReconciliation (pdf-processor.ts).  A transaction row carries an     *)
(* amount (a number or null) and a type.                                   *)
(***************************************************************************)
Cent == FromCents(1)

Row(amount, type, rawText) == [amount |-> amount, type |-> type, rawText |-> rawText]

\* the for loop over the transactions, from row i on, with the running totals
RECURSIVE SumRows(_, _, _, _)
SumRows(transactions, i, totalCredits, totalDebits) ==
    IF i > Len(transactions)
    THEN [totalCredits |-> totalCredits, totalDebits |-> totalDebits]
    ELSE LET tx == transactions[i]
         IN  IF tx.amount.isNull
             THEN SumRows(transactions, i + 1, totalCredits, totalDebits)
             ELSE IF tx.type = "credit"
             THEN SumRows(transactions, i + 1, FAdd(totalCredits, FAbs(tx.amount)), totalDebits)
             ELSE IF tx.type = "debit"
             THEN SumRows(transactions, i + 1, totalCredits, FAdd(totalDebits, FAbs(tx.amount)))
             ELSE IF FLess(Zero, tx.amount)
             THEN SumRows(transactions, i + 1, FAdd(totalCredits, tx.amount), totalDebits)
             ELSE SumRows(transactions, i + 1, totalCredits, FAdd(totalDebits, FAbs(tx.amount)))

\* lines 421-431: the verdict from the balances and the totals of the loop
verdict(openingBalance, closingBalance, sums) ==
    With(FSub(FAdd(openingBalance, sums.totalCredits), sums.totalDebits),
         LAMBDA calculatedClosing :
            With(FAbs(FSub(calculatedClosing, closingBalance)), LAMBDA difference :
                [isReconciled |-> FLess(difference, Cent),
                 calculatedClosing |-> Round2(calculatedClosing),
                 difference |-> Round2(difference),
                 totalCredits |-> Round2(sums.totalCredits),
                 totalDebits |-> Round2(sums.totalDebits)]))

\* a missing balance read as 0, as openingBalance || 0 does
runReconciliationFromZero(transactions, openingBalance, closingBalance) ==
    With(SumRows(transactions, 1, Zero, Zero), LAMBDA sums :
        verdict(IF openingBalance.isNull THEN Zero ELSE openingBalance,
                IF closingBalance.isNull THEN Zero ELSE closingBalance, sums))

runReconciliation(transactions, openingBalance, closingBalance) ==
    IF openingBalance.isNull \/ closingBalance.isNull
    THEN [isReconciled |-> FALSE, calculatedClosing |-> Null, difference |-> Null,
          totalCredits |-> Zero, totalDebits |-> Zero]
    ELSE With(SumRows(transactions, 1, Zero, Zero), LAMBDA sums :
             verdict(openingBalance, closingBalance, sums))

\* Number.prototype.toFixed(2) of a non-negative number
ToFixed2(x) ==
    With(MathRound(FMul100(x)), LAMBDA n :
        ToString(n \div 100) \o "." \o (IF n % 100 < 10 THEN "0" ELSE "")
            \o ToString(n % 100))

(***************************************************************************)
(* detectPDFType (pdf-type-detector.ts) on the result of the text-layer    *)
(* extraction, a PDFTextResult.  Confidences are kept in hundredths; the   *)
(* code only compares them.                                                *)
(***************************************************************************)
TextFailure(error) ==
    [success |-> FALSE, chars |-> 0, pageCount |-> 0, error |-> error, raised |-> FALSE]
TextOk(chars, pageCount) ==
    [success |-> TRUE, chars |-> chars, pageCount |-> pageCount, error |-> "", raised |-> FALSE]
\* the call does not return: it throws an Error with this message
TextRaised(error) ==
    [success |-> FALSE, chars |-> 0, pageCount |-> 0, error |-> error, raised |-> TRUE]

\* avgCharsPerPage > n, for avgCharsPerPage = totalChars / pageCount
AvgAbove(t, n) == t.chars > n * t.pageCount

\* the classification when the text layer cannot be read, as a detector
\* that gives up on the document would report it
detectPDFTypeUnreadable(t) ==
    IF t.raised \/ ~t.success
    THEN [type |-> "scanned", scanQuality |-> "poor", pageCount |-> 0,
          hasText |-> FALSE, confidence |-> 0]
    ELSE IF AvgAbove(t, 500)
    THEN [type |-> "native", scanQuality |-> "none", pageCount |-> t.pageCount,
          hasText |-> TRUE, confidence |-> 95]
    ELSE [type |-> "scanned",
          scanQuality |-> IF AvgAbove(t, 200) THEN "good" ELSE "poor",
          pageCount |-> t.pageCount, hasText |-> AvgAbove(t, 50), confidence |-> 80]

detectPDFType(t) ==
    IF t.raised
    THEN [type |-> "native", scanQuality |-> "none", pageCount |-> 0,
          hasText |-> FALSE, confidence |-> 30]
    ELSE IF ~t.success
    THEN [type |-> "native", scanQuality |-> "none", pageCount |-> 0,
          hasText |-> FALSE, confidence |-> 30]
    ELSE IF AvgAbove(t, 500)
    THEN [type |-> "native", scanQuality |-> "none", pageCount |-> t.pageCount,
          hasText |-> TRUE, confidence |-> 95]
    ELSE [type |-> "scanned",
          scanQuality |-> IF AvgAbove(t, 200) THEN "good" ELSE "poor",
          pageCount |-> t.pageCount, hasText |-> AvgAbove(t, 50), confidence |-> 80]

(***************************************************************************)
(* The ProcessingResult a run starts from, and the three strategies of     *)
(* pdf-processor.ts as functions of what their backend answered.           *)
(***************************************************************************)
\* confidenceThreshold when the caller gives none, and the confidence
\* processWithGemini assigns to a successful extraction, in hundredths
DefaultConfidenceThreshold == 70
GeminiConfidence == 95

InitialResult ==
    [success |-> FALSE, method |-> "native", transactions |-> << >>,
     openingBalance |-> Null, closingBalance |-> Null, calculatedClosing |-> Null,
     isReconciled |-> FALSE, reconciliationDifference |-> Null,
     pageCount |-> 0, confidence |-> 0, errors |-> << >>, warnings |-> << >>]

\* extraction is the ExtractionResult of extractFromNativePDF
processNativePDF(extraction, current) ==
    [current EXCEPT !.method = "native",
                    !.transactions = extraction.transactions,
                    !.openingBalance = extraction.openingBalance,
                    !.closingBalance = extraction.closingBalance,
                    !.pageCount = extraction.pageCount,
                    !.confidence = extraction.confidence,
                    !.errors = extraction.errors,
                    !.warnings = << >>]

\* gmft and ocr are the answers of the worker's /extract/gmft endpoint and of
\* its tesseract or easyocr endpoint.  kind "down" is a rejected fetch or a
\* response that is not ok, kind "ok" a response whose body is the worker's
\* result.
processScannedPDF(gmft, ocr, quality, current) ==
    IF gmft.kind = "ok" /\ gmft.success /\ Len(gmft.transactions) > 0
    THEN [current EXCEPT !.method = "gmft",
                         !.transactions = gmft.transactions,
                         !.openingBalance = gmft.opening_balance,
                         !.closingBalance = gmft.closing_balance,
                         !.pageCount = gmft.page_count,
                         !.confidence = gmft.confidence,
                         !.errors = gmft.errors,
                         !.warnings = << >>]
    ELSE IF ocr.kind = "down"
    THEN [current EXCEPT !.errors = <<"OCR extraction failed: " \o ocr.error>>]
    ELSE [current EXCEPT !.method = IF quality = "good" THEN "tesseract" ELSE "easyocr",
                         !.transactions = ocr.transactions,
                         !.openingBalance = ocr.opening_balance,
                         !.closingBalance = ocr.closing_balance,
                         !.pageCount = ocr.page_count,
                         !.confidence = ocr.confidence,
                         !.errors = ocr.errors,
                         !.warnings = << >>]

\* the rows of all accounts, each tagged with its account number
RECURSIVE FlattenAccounts(_, _)
FlattenAccounts(accounts, i) ==
    IF i > Len(accounts) THEN << >>
    ELSE [j \in 1..Len(accounts[i].transactions) |->
             [accounts[i].transactions[j] EXCEPT !.accountNumber = accounts[i].accountNumber]]
         \o FlattenAccounts(accounts, i + 1)

\* the loop that sums one balance field over the accounts: the running
\* total and whether any account carried a number
RECURSIVE SumAccounts(_, _, _, _, _)
SumAccounts(accounts, field, i, total, has) ==
    IF i > Len(accounts) THEN [total |-> total, has |-> has]
    ELSE IF accounts[i][field].isNull
    THEN SumAccounts(accounts, field, i + 1, total, has)
    ELSE SumAccounts(accounts, field, i + 1, FAdd(total, accounts[i][field]), TRUE)

\* extraction is the GeminiExtractionResult of extractWithGemini
processWithGemini(extraction, current) ==
    IF ~extraction.success
    THEN [current EXCEPT !.errors = current.errors \o <<"Gemini extraction failed: " \o extraction.error>>]
    ELSE LET data == extraction.data
             accounts == data.accounts
             allTransactions ==
                 IF Len(data.transactions) = 0 /\ Len(accounts) > 0
                 THEN FlattenAccounts(accounts, 1)
                 ELSE data.transactions
             transactions ==
                 [j \in 1..Len(allTransactions) |->
                    LET t == allTransactions[j]
                    IN  Row(IF t.amount.isNull THEN Null ELSE FAbs(t.amount), t.type,
                            (IF t.accountNumber # "" THEN "[" \o t.accountNumber \o "] " ELSE "")
                                \o t.description)]
             multi == data.isMultiAccount /\ Len(accounts) > 0
         IN  With2(SumAccounts(accounts, "openingBalance", 1, Zero, FALSE),
                   SumAccounts(accounts, "closingBalance", 1, Zero, FALSE),
                   LAMBDA opening, closing :
                [current EXCEPT
                   !.method = "gemini",
                   !.transactions = transactions,
                   !.openingBalance = IF multi THEN (IF opening.has THEN opening.total ELSE Null)
                                               ELSE data.openingBalance,
                   !.closingBalance = IF multi THEN (IF closing.has THEN closing.total ELSE Null)
                                               ELSE data.closingBalance,
                   !.pageCount = IF current.pageCount = 0 THEN 1 ELSE current.pageCount,
                   !.confidence = GeminiConfidence,
                   !.errors = << >>,
                   !.warnings = IF data.isMultiAccount
                                THEN <<"Multi-account statement with " \o ToString(Len(accounts))
                                           \o " accounts detected">>
                                ELSE << >>])

(***************************************************************************)
(* What the backends can answer.  Amounts and balances are written as      *)
(* decimal literals with two fraction digits, given here in cents.         *)
(***************************************************************************)
DataRow(description, cents, type) ==
    [description |-> description, amount |-> FromCents(cents), type |-> type, accountNumber |-> ""]

ParsedRow(description, cents, type) == Row(FromCents(cents), type, description)

\* credit 500.00, debit 200.00, debit 0.01: 1000.00 becomes 1299.99
StatementRows ==
    <<[d |-> "PAYROLL", c |-> 50000, t |-> "credit"],
      [d |-> "RENT", c |-> 20000, t |-> "debit"],
      [d |-> "FEE", c |-> 1, t |-> "debit"]>>

\* credit 0.10, credit 0.20
InterestRows ==
    <<[d |-> "INTEREST", c |-> 10, t |-> "credit"],
      [d |-> "REBATE", c |-> 20, t |-> "credit"]>>

Parsed(rows) == [i \in 1..Len(rows) |-> ParsedRow(rows[i].d, rows[i].c, rows[i].t)]
Data(rows) == [i \in 1..Len(rows) |-> DataRow(rows[i].d, rows[i].c, rows[i].t)]

NullableCents(c) == IF c < 0 THEN Null ELSE FromCents(c)

\* what a text or OCR backend recovered: rows, stated balances in cents
\* (-1: none found) and the overall confidence
Recovered(rows, opening, closing, confidence) ==
    [transactions |-> Parsed(rows), openingBalance |-> NullableCents(opening),
     closingBalance |-> NullableCents(closing), confidence |-> confidence]

Recoveries ==
    {Recovered(<< >>, -1, -1, 0),
     Recovered(StatementRows, 100000, 129999, 90),
     Recovered(StatementRows, 100000, 135000, 100),
     Recovered(StatementRows, 100000, 135000, 50),
     Recovered(StatementRows, -1, -1, 50),
     Recovered(InterestRows, 10000, 10031, 90)}

\* extractTextFromPDF as PDFTextResult describes it
TextLayers ==
    {TextFailure("PDF text extraction failed"),
     TextRaised("Invalid PDF structure"),
     TextOk(600, 1), TextOk(300, 1), TextOk(100, 1)}

\* extractFromNativePDF on the text layer t
NativeExtractions(t) ==
    IF ~t.success
    THEN {[success |-> FALSE, transactions |-> << >>, openingBalance |-> Null,
           closingBalance |-> Null, pageCount |-> 0, confidence |-> 0,
           errors |-> <<"Extraction failed: " \o t.error>>]}
    ELSE {[success |-> TRUE, transactions |-> r.transactions,
           openingBalance |-> r.openingBalance, closingBalance |-> r.closingBalance,
           pageCount |-> t.pageCount,
           confidence |-> IF Len(r.transactions) > 0 THEN r.confidence ELSE 0,
           errors |-> << >>] : r \in Recoveries}

WorkerDown(error) ==
    [kind |-> "down", success |-> FALSE, transactions |-> << >>, opening_balance |-> Null,
     closing_balance |-> Null, page_count |-> 0, confidence |-> 0, errors |-> << >>,
     error |-> error]

WorkerOk(r, errors) ==
    [kind |-> "ok", success |-> TRUE, transactions |-> r.transactions,
     opening_balance |-> r.openingBalance, closing_balance |-> r.closingBalance,
     page_count |-> 1, confidence |-> r.confidence, errors |-> errors, error |-> ""]

GmftAnswers ==
    {WorkerDown("fetch failed"),
     WorkerOk(Recovered(StatementRows, 100000, 129999, 90), << >>)}

OcrAnswers ==
    {WorkerDown("Python worker returned 500"),
     WorkerOk(Recovered(<< >>, -1, -1, 0), <<"tesseract: no text recognised">>),
     WorkerOk(Recovered(StatementRows, 100000, 135000, 50), << >>),
     WorkerOk(Recovered(StatementRows, 100000, 135000, 90), <<"tesseract: page 1 skewed">>)}

\* an extraction without data
NoData ==
    [isMultiAccount |-> FALSE, accounts |-> << >>, transactions |-> << >>,
     openingBalance |-> Null, closingBalance |-> Null]

GeminiFailure(error) == [success |-> FALSE, error |-> error, data |-> NoData]

GeminiData(rows, opening, closing) ==
    [success |-> TRUE, error |-> "",
     data |-> [isMultiAccount |-> FALSE, accounts |-> << >>, transactions |-> Data(rows),
               openingBalance |-> NullableCents(opening),
               closingBalance |-> NullableCents(closing)]]

Account(number, rows, opening, closing) ==
    [accountNumber |-> number, transactions |-> Data(rows),
     openingBalance |-> NullableCents(opening), closingBalance |-> NullableCents(closing)]

GeminiMulti(accounts) ==
    [success |-> TRUE, error |-> "",
     data |-> [isMultiAccount |-> TRUE, accounts |-> accounts, transactions |-> << >>,
               openingBalance |-> Null, closingBalance |-> Null]]

\* a statement of one account as the prompt's structure describes it: the
\* account is listed under accounts, the rows are listed at the root
GeminiListed(accounts, rows, opening, closing) ==
    [success |-> TRUE, error |-> "",
     data |-> [isMultiAccount |-> FALSE, accounts |-> accounts, transactions |-> Data(rows),
               openingBalance |-> NullableCents(opening),
               closingBalance |-> NullableCents(closing)]]

GeminiAnswers ==
    {GeminiFailure("Empty or unexpected response structure from Gemini"),
     GeminiListed(<<Account("001", StatementRows, 100000, 129999)>>, StatementRows, -1, -1),
     GeminiData(<< >>, -1, -1),
     GeminiData(<< >>, 100000, 100000),
     GeminiData(StatementRows, 100000, 129999),
     GeminiData(StatementRows, 100000, 132000),
     GeminiData(StatementRows, 100000, 140000),
     GeminiMulti(<<Account("001", StatementRows, 100000, 129999),
                   Account("002", InterestRows, 10000, 10030)>>)}

(***************************************************************************)
(* processDocument (pdf-processor.ts), one run.                            *)
(*                                                                         *)
(*   opts, textLayer   the inputs of the run: the options, whether         *)
(*                     GEMINI_API_KEY is set, and the document's text layer*)
(*   pc                the step the run is at                              *)
(*   pdfType, result, errors, warnings   the locals of processDocument     *)
(*   thrown            the message of the exception on its way to the      *)
(*                     catch block, "" when there is none                  *)
(*   attempts          history: one entry for each strategy invocation     *)
(***************************************************************************)
VARIABLES opts, textLayer, pc, pdfType, result, errors, warnings, thrown, attempts

(***************************************************************************)
(* The reconciliation of one statement on its own: rRows, rOpening and     *)
(* rClosing are the rows and stated balances as the document prints them   *)
(* (decimal, in cents), rOut what lines 116-127 make of them.              *)
(***************************************************************************)
VARIABLES rRows, rOpening, rClosing, rPc, rOut

(***************************************************************************)
(* The stored transactions of a conversion (types/transaction.ts) under    *)
(* the legacy reconciler: lRows are the rows handed to                     *)
(* reconcileTransactions, lOpening its openingBalance (decimal, in cents), *)
(* lOut what it returned.                                                  *)
(***************************************************************************)
VARIABLES lRows, lOpening, lPc, lOut

(***************************************************************************)
(* The process routes (api/process, api/process-background) saving the     *)
(* transactions of a processing result: sRoute is the route, sRaw          *)
(* processingResult.transactions, sRows the rows given to                  *)
(* createTransactions.                                                     *)
(***************************************************************************)
VARIABLES sRoute, sRaw, sRows, sPc

(***************************************************************************)
(* The native extractor (native-pdf-extractor.ts) on the text of one       *)
(* statement: tWritten are the lines of the text layer with the columns    *)
(* they were printed from, tOut the transactions and balances read back.   *)
(***************************************************************************)
VARIABLES tWritten, tPc, tOut

(***************************************************************************)
(* The external calls of a run: silent are the backends ("worker", the     *)
(* Python worker; "gemini", the Gemini API) that accept a request and      *)
(* never answer it, waiting is the call the run is awaiting ("none" when   *)
(* it awaits nothing), tick flips with every turn of a polling loop.       *)
(***************************************************************************)
VARIABLES silent, waiting, tick

(***************************************************************************)
(* Concurrent extractWithGemini calls (gemini-extractor.ts): fKey is       *)
(* whether GEMINI_API_KEY is set, fPc[c] the position of call c, fName[c]  *)
(* its tempFile (NoName before line 93), files the temporary files that    *)
(* exist in tmpdir().                                                      *)
(***************************************************************************)
VARIABLES fKey, fPc, fName, files

(***************************************************************************)
(* detectPDFType on one document: dDocument is the text the buffer holds   *)
(* (its characters and pages), dOut the PDFTypeResult.                     *)
(***************************************************************************)
VARIABLES dDocument, dPc, dOut

(***************************************************************************)
(* The process routes on one conversion of one signed-in user: cStatus is  *)
(* the status column of the conversion, txs the rows of the transactions   *)
(* table (each with the request that inserted it), summaries the requests  *)
(* whose result summary is in the conversion record, pagesUsed the         *)
(* pages_used_this_month column of the profile, and req the position and   *)
(* the locals of each request.                                             *)
(***************************************************************************)
VARIABLES cStatus, txs, summaries, pagesUsed, req

(***************************************************************************)
(* getOrCreateGuestUser in one server process: cachedGuestUserId is the    *)
(* module-level cache (0 for null), guests the ids of the accounts with    *)
(* the guest e-mail address, profiles the ids with a profile row, assigned *)
(* the values the cache has been given so far, and gCall the position and  *)
(* the locals of each call.                                                *)
(***************************************************************************)
VARIABLES cachedGuestUserId, guests, profiles, assigned, gCall

runVars == <<opts, textLayer, pc, pdfType, result, errors, warnings, thrown, attempts>>
reconVars == <<rRows, rOpening, rClosing, rPc, rOut>>
ledgerVars == <<lRows, lOpening, lPc, lOut>>
saveVars == <<sRoute, sRaw, sRows, sPc>>
textVars == <<tWritten, tPc, tOut>>
awaitVars == <<silent, waiting, tick>>
filesVars == <<fKey, fPc, fName, files>>
detectVars == <<dDocument, dPc, dOut>>
storeVars == <<cStatus, txs, summaries, pagesUsed, req>>
guestVars == <<cachedGuestUserId, guests, profiles, assigned, gCall>>
vars == <<runVars, reconVars, ledgerVars, saveVars, textVars, awaitVars, filesVars, detectVars, storeVars, guestVars>>
notRunVars == <<reconVars, ledgerVars, saveVars, textVars, awaitVars, filesVars, detectVars, storeVars, guestVars>>
notReconVars == <<runVars, ledgerVars, saveVars, textVars, awaitVars, filesVars, detectVars, storeVars, guestVars>>
notLedgerVars == <<runVars, reconVars, saveVars, textVars, awaitVars, filesVars, detectVars, storeVars, guestVars>>
notSaveVars == <<runVars, reconVars, ledgerVars, textVars, awaitVars, filesVars, detectVars, storeVars, guestVars>>
notTextVars == <<runVars, reconVars, ledgerVars, saveVars, awaitVars, filesVars, detectVars, storeVars, guestVars>>
notAwaitVars == <<runVars, reconVars, ledgerVars, saveVars, textVars, filesVars, detectVars, storeVars, guestVars>>
notFilesVars == <<runVars, reconVars, ledgerVars, saveVars, textVars, awaitVars, detectVars, storeVars, guestVars>>
notDetectVars == <<runVars, reconVars, ledgerVars, saveVars, textVars, awaitVars, filesVars, storeVars, guestVars>>
notStoreVars == <<runVars, reconVars, ledgerVars, saveVars, textVars, awaitVars, filesVars, detectVars, guestVars>>
notGuestVars == <<runVars, reconVars, ledgerVars, saveVars, textVars, awaitVars, filesVars, detectVars, storeVars>>

NoDec == [isNull |-> TRUE, cents |-> 0]
Dec(c) == [isNull |-> FALSE, cents |-> c]
ParseDec(d) == IF d.isNull THEN Null ELSE FromCents(d.cents)

NoVerdict ==
    [reconciliation |-> [isReconciled |-> FALSE, calculatedClosing |-> Null,
                         difference |-> Null, totalCredits |-> Zero, totalDebits |-> Zero],
     result |-> InitialResult, warnings |-> << >>]

ReconIdle ==
    /\ rRows = << >>
    /\ rOpening = NoDec
    /\ rClosing = NoDec
    /\ rPc = "idle"
    /\ rOut = NoVerdict

NoLegacyVerdict == [isReconciled |-> FALSE, calculatedClosing |-> Null, difference |-> Null]

LedgerIdle ==
    /\ lRows = << >>
    /\ lOpening = NoDec
    /\ lPc = "idle"
    /\ lOut = NoLegacyVerdict

SaveIdle ==
    /\ sRoute = "process"
    /\ sRaw = << >>
    /\ sRows = << >>
    /\ sPc = "idle"

NoExtraction == [transactions |-> << >>, openingBalance |-> Null, closingBalance |-> Null]

TextIdle ==
    /\ tWritten = << >>
    /\ tPc = "idle"
    /\ tOut = NoExtraction

\* every backend answers and no call is being awaited
AwaitIdle ==
    /\ silent = {}
    /\ waiting = "none"
    /\ tick = FALSE

\* no extractWithGemini call has been made
FilesIdle ==
    /\ fKey = FALSE
    /\ fPc = << >>
    /\ fName = << >>
    /\ files = {}

\* no document is being classified
DetectIdle ==
    /\ dDocument = [chars |-> 0, pageCount |-> 1]
    /\ dPc = "idle"
    /\ dOut = [type |-> "unknown", scanQuality |-> "none", pageCount |-> 0,
               hasText |-> FALSE, confidence |-> 0]

\* no request is being served
StoreIdle ==
    /\ cStatus = "pending"
    /\ txs = {}
    /\ summaries = {}
    /\ pagesUsed = 0
    /\ req = << >>

\* no call of getOrCreateGuestUser is under way
GuestIdle ==
    /\ cachedGuestUserId = 0
    /\ guests = {}
    /\ profiles = {}
    /\ assigned = {}
    /\ gCall = << >>

Options ==
    [geminiKey : BOOLEAN,
     forceMethod : {"none", "native", "ocr"},
     confidenceThreshold : {DefaultConfidenceThreshold, GeminiConfidence + 1},
     enableReconciliation : BOOLEAN]

NoType ==
    [type |-> "unknown", scanQuality |-> "none", pageCount |-> 0,
     hasText |-> FALSE, confidence |-> 0]

\* the fields of a result an acceptance decision is about
Core(r) ==
    [method |-> r.method, transactions |-> r.transactions,
     openingBalance |-> r.openingBalance, closingBalance |-> r.closingBalance,
     confidence |-> r.confidence]

Attempt(strategy, step, failed, reported, prior, returned, after) ==
    [strategy |-> strategy, step |-> step, failed |-> failed,
     errors |-> reported, warnings |-> returned.warnings,
     rows |-> Len(returned.transactions), given |-> NoData,
     prior |-> Core(prior), returned |-> Core(returned), after |-> Core(after)]

\* the errors a failed processWithGemini call added to those it was given
LastError(r) == <<r.errors[Len(r.errors)]>>

GeminiAttempt(step, g, prior, returned, after) ==
    [Attempt("gemini", step, ~g.success,
             IF g.success THEN returned.errors ELSE LastError(returned),
             prior, returned, after) EXCEPT !.given = g.data]

Init ==
    /\ GuestIdle
    /\ StoreIdle
    /\ DetectIdle
    /\ FilesIdle
    /\ AwaitIdle
    /\ TextIdle
    /\ opts \in Options
    /\ textLayer \in TextLayers
    /\ pc = "detect"
    /\ pdfType = NoType
    /\ result = InitialResult
    /\ errors = << >>
    /\ warnings = << >>
    /\ thrown = ""
    /\ attempts = << >>
    /\ ReconIdle
    /\ LedgerIdle
    /\ SaveIdle

\* Step 1
DetectType ==
    /\ pc = "detect"
    /\ pdfType' = detectPDFType(textLayer)
    /\ result' = [result EXCEPT !.pageCount = pdfType'.pageCount]
    /\ pc' = "route"
    /\ UNCHANGED <<opts, textLayer, errors, warnings, thrown, attempts>>
    /\ UNCHANGED notRunVars

\* the backend settles the calls made to it
Answers(backend) == backend \notin silent

\* Gemini first unless native is forced, with or without a key
geminiIsPrimaryUnlessForced(o) == o.forceMethod # "native"

\* Step 2, the condition of its first branch
geminiIsPrimary(o) == o.geminiKey /\ o.forceMethod # "native"

RouteGemini ==
    /\ pc = "route"
    /\ geminiIsPrimary(opts)
    /\ Answers("gemini")
    /\ \E g \in GeminiAnswers :
         LET r == processWithGemini(g, result)
         IN  /\ result' = r
             /\ attempts' = Append(attempts, GeminiAttempt("route", g, result, r, r))
    /\ pc' = "confidence"
    /\ UNCHANGED <<opts, textLayer, pdfType, errors, warnings, thrown>>
    /\ UNCHANGED notRunVars

RouteNative ==
    /\ pc = "route"
    /\ ~geminiIsPrimary(opts)
    /\ pdfType.type = "native"
    /\ \E e \in NativeExtractions(textLayer) :
         LET r == processNativePDF(e, result)
         IN  /\ result' = r
             /\ attempts' = Append(attempts,
                    Attempt("native", "route", ~e.success, r.errors, result, r, r))
    /\ pc' = "confidence"
    /\ UNCHANGED <<opts, textLayer, pdfType, errors, warnings, thrown>>
    /\ UNCHANGED notRunVars

\* the exception of lines 198-200, which are outside the try blocks of
\* processScannedPDF: the copy of the buffer cannot be allocated
UploadError == "Array buffer allocation failed"

RouteScanned ==
    /\ pc = "route"
    /\ ~geminiIsPrimary(opts)
    /\ pdfType.type # "native"
    /\ \/ /\ Answers("worker")
          /\ \E gmft \in GmftAnswers, ocr \in OcrAnswers :
               LET quality == IF pdfType.scanQuality = "none" THEN "good" ELSE pdfType.scanQuality
                   r == processScannedPDF(gmft, ocr, quality, result)
                   usedGmft == gmft.kind = "ok" /\ gmft.success /\ Len(gmft.transactions) > 0
               IN  /\ result' = r
                   /\ attempts' = Append(attempts,
                          Attempt("ocr", "route", ~usedGmft /\ ocr.kind # "ok", r.errors,
                                  result, r, r))
          /\ pc' = "confidence"
          /\ thrown' = thrown
       \/ /\ waiting = "none"
          /\ thrown' = UploadError
          /\ pc' = "catch"
          /\ result' = result
          /\ attempts' = Append(attempts,
                 Attempt("ocr", "route", TRUE, << >>, result, result, result))
    /\ UNCHANGED <<opts, textLayer, pdfType, errors, warnings>>
    /\ UNCHANGED notRunVars

\* Step 3: the condition of the fallback, and which result is kept
needsConfidenceFallback(current, threshold) ==
    /\ current.confidence < threshold
    /\ current.method # "gemini"

acceptOnConfidence(aiResult, current) ==
    IF aiResult.confidence > current.confidence
    THEN [aiResult EXCEPT !.method = "hybrid"]
    ELSE current

LowConfidenceWarning(current) ==
    "Low confidence (" \o ToString(current.confidence) \o ".0%), attempting Gemini fallback"

\* Step 3 reaches its Gemini call
fallsBackToGemini(current, o) ==
    needsConfidenceFallback(current, o.confidenceThreshold) /\ o.geminiKey

\* the fallback with one retry of a failed Gemini call
ConfidenceFallbackRetrying ==
    /\ pc = "confidence"
    /\ fallsBackToGemini(result, opts) => Answers("gemini")
    /\ IF needsConfidenceFallback(result, opts.confidenceThreshold)
       THEN /\ warnings' = Append(warnings, LowConfidenceWarning(result))
            /\ IF opts.geminiKey
               THEN \E g \in GeminiAnswers, g2 \in GeminiAnswers :
                      LET first == processWithGemini(g, result)
                          aiResult == IF g.success THEN first ELSE processWithGemini(g2, result)
                          kept == acceptOnConfidence(aiResult, result)
                          tried == Append(attempts,
                                       GeminiAttempt("confidence", g, result, first,
                                                     acceptOnConfidence(first, result)))
                      IN  /\ result' = kept
                          /\ attempts' = IF g.success THEN tried
                                         ELSE Append(tried,
                                                GeminiAttempt("confidence", g2, result, aiResult, kept))
               ELSE UNCHANGED <<result, attempts>>
       ELSE UNCHANGED <<result, warnings, attempts>>
    /\ pc' = "reconcile"
    /\ UNCHANGED <<opts, textLayer, pdfType, errors, thrown>>
    /\ UNCHANGED notRunVars

ConfidenceFallback ==
    /\ pc = "confidence"
    /\ fallsBackToGemini(result, opts) => Answers("gemini")
    /\ IF needsConfidenceFallback(result, opts.confidenceThreshold)
       THEN /\ warnings' = Append(warnings, LowConfidenceWarning(result))
            /\ IF opts.geminiKey
               THEN \E g \in GeminiAnswers :
                      LET aiResult == processWithGemini(g, result)
                          kept == acceptOnConfidence(aiResult, result)
                      IN  /\ result' = kept
                          /\ attempts' = Append(attempts,
                                 GeminiAttempt("confidence", g, result, aiResult, kept))
               ELSE UNCHANGED <<result, attempts>>
       ELSE UNCHANGED <<result, warnings, attempts>>
    /\ pc' = "reconcile"
    /\ UNCHANGED <<opts, textLayer, pdfType, errors, thrown>>
    /\ UNCHANGED notRunVars

\* Step 4: the result with the verdict stored in it
withVerdict(r, reconciliation) ==
    [r EXCEPT !.calculatedClosing = reconciliation.calculatedClosing,
              !.isReconciled = reconciliation.isReconciled,
              !.reconciliationDifference = reconciliation.difference]

isMismatch(reconciliation) ==
    ~reconciliation.isReconciled /\ ~reconciliation.difference.isNull

needsReExtraction(current, reconciliation, geminiKey) ==
    /\ current.method # "gemini"
    /\ current.method # "hybrid"
    /\ FLess(Cent, FAbs(reconciliation.difference))
    /\ geminiKey

\* the re-extraction taken whatever it returned
acceptAnyReExtraction(aiResult, aiRecon, current, reconciliation) ==
    [withVerdict(aiResult, aiRecon) EXCEPT !.method = "hybrid"]

acceptOnReconciliation(aiResult, aiRecon, current, reconciliation) ==
    IF \/ aiRecon.isReconciled
       \/ /\ ~aiRecon.difference.isNull
          /\ ~reconciliation.difference.isNull
          /\ FLess(FAbs(aiRecon.difference), FAbs(reconciliation.difference))
    THEN [withVerdict(aiResult, aiRecon) EXCEPT !.method = "hybrid"]
    ELSE current

MismatchWarning(reconciliation) ==
    "Reconciliation mismatch: $" \o ToFixed2(FAbs(reconciliation.difference))

\* lines 116-127: the verdict on the current result, stored in it, and the
\* warnings after it
checkReconciliation(current, warns) ==
    With(runReconciliation(current.transactions, current.openingBalance,
                           current.closingBalance),
         LAMBDA reconciliation :
            [reconciliation |-> reconciliation,
             result |-> withVerdict(current, reconciliation),
             warnings |-> IF isMismatch(reconciliation)
                          THEN Append(warns, MismatchWarning(reconciliation))
                          ELSE warns])

ReExtractionWarning == "Attempting Gemini re-extraction due to reconciliation failure"

\* Step 4 reaches its Gemini call
reExtracts(current, warns, o) ==
    /\ o.enableReconciliation
    /\ \E step \in {checkReconciliation(current, warns)} :
          /\ isMismatch(step.reconciliation)
          /\ needsReExtraction(step.result, step.reconciliation, o.geminiKey)

ReconciliationCheck ==
    /\ pc = "reconcile"
    /\ reExtracts(result, warnings, opts) => Answers("gemini")
    /\ IF ~opts.enableReconciliation
       THEN /\ pc' = "finish"
            /\ UNCHANGED <<result, warnings, thrown, attempts>>
       ELSE \E step \in {checkReconciliation(result, warnings)} :
              /\ pc' = "finish"
              /\ thrown' = thrown
              /\ IF ~(isMismatch(step.reconciliation)
                      /\ needsReExtraction(step.result, step.reconciliation, opts.geminiKey))
                 THEN /\ result' = step.result
                      /\ warnings' = step.warnings
                      /\ attempts' = attempts
                 ELSE \E g \in GeminiAnswers :
                      \E aiResult \in {processWithGemini(g, step.result)} :
                      \E aiRecon \in {runReconciliation(aiResult.transactions,
                                           aiResult.openingBalance, aiResult.closingBalance)} :
                      \E kept \in {acceptOnReconciliation(aiResult, aiRecon, step.result,
                                                          step.reconciliation)} :
                        /\ result' = kept
                        /\ warnings' = Append(step.warnings, ReExtractionWarning)
                        /\ attempts' = Append(attempts,
                               GeminiAttempt("reconcile", g, step.result, aiResult, kept))
    /\ UNCHANGED <<opts, textLayer, pdfType, errors>>
    /\ UNCHANGED notRunVars

NoTransactionsError ==
    "No transactions detected. The document format might not be supported or the quality is too low."

\* finish without the fallback message
finishWithoutFallback(r, errs, warns) ==
    [result |-> [r EXCEPT !.success = Len(r.transactions) > 0, !.errors = errs, !.warnings = warns],
     errors |-> errs]

\* lines 156-161: the result returned on the normal path and the errors array
finish(r, errs, warns) ==
    LET success == Len(r.transactions) > 0
        errs2 == IF ~success /\ errs = << >> THEN Append(errs, NoTransactionsError) ELSE errs
    IN  [result |-> [r EXCEPT !.success = success, !.errors = errs2, !.warnings = warns],
         errors |-> errs2]

Finish ==
    /\ pc = "finish"
    /\ result' = finish(result, errors, warnings).result
    /\ errors' = finish(result, errors, warnings).errors
    /\ pc' = "done"
    /\ UNCHANGED <<opts, textLayer, pdfType, warnings, thrown, attempts>>
    /\ UNCHANGED notRunVars

\* the catch block, lines 163-166
Catch ==
    /\ pc = "catch"
    /\ errors' = Append(errors, "Processing failed: " \o thrown)
    /\ result' = [result EXCEPT !.errors = result.errors \o errors']
    /\ pc' = "done"
    /\ UNCHANGED <<opts, textLayer, pdfType, warnings, thrown, attempts>>
    /\ UNCHANGED notRunVars

Next ==
    \/ DetectType
    \/ RouteGemini
    \/ RouteNative
    \/ RouteScanned
    \/ ConfidenceFallback
    \/ ReconciliationCheck
    \/ Finish
    \/ Catch

Spec == Init /\ [][Next]_vars

(***************************************************************************)
(* A run whose backends may accept a request and never answer it.  None of *)
(* the awaited calls carries a timeout or an abort signal: fetch at lines  *)
(* 208 and 237 of pdf-processor.ts, generateContent at line 179 of         *)
(* gemini-extractor.ts and the loop of its lines 129-134, which asks for   *)
(* the state of the uploaded file every two seconds while it is            *)
(* PROCESSING.                                                             *)
(***************************************************************************)
Backends == {"worker", "gemini"}

InitBounded ==
    /\ GuestIdle
    /\ StoreIdle
    /\ DetectIdle
    /\ FilesIdle
    /\ silent \in SUBSET Backends
    /\ waiting = "none"
    /\ tick = FALSE
    /\ opts \in Options
    /\ textLayer \in TextLayers
    /\ pc = "detect"
    /\ pdfType = NoType
    /\ result = InitialResult
    /\ errors = << >>
    /\ warnings = << >>
    /\ thrown = ""
    /\ attempts = << >>
    /\ ReconIdle
    /\ LedgerIdle
    /\ SaveIdle
    /\ TextIdle

\* the calls extractWithGemini awaits on its two paths: generateContent, and
\* for a buffer of more than 4 MB files.get before it
GeminiCalls == {"generateContent", "files.get"}

\* a strategy call is made to a backend that does not answer: the run
\* awaits it with what it had written before the call
AwaitSilent ==
    /\ waiting = "none"
    /\ \/ /\ pc = "route"
          /\ geminiIsPrimary(opts)
          /\ ~Answers("gemini")
          /\ waiting' \in GeminiCalls
          /\ UNCHANGED <<result, warnings>>
       \/ /\ pc = "route"
          /\ ~geminiIsPrimary(opts)
          /\ pdfType.type # "native"
          /\ ~Answers("worker")
          /\ waiting' = "fetch"
          /\ UNCHANGED <<result, warnings>>
       \/ /\ pc = "confidence"
          /\ fallsBackToGemini(result, opts)
          /\ ~Answers("gemini")
          /\ waiting' \in GeminiCalls
          /\ warnings' = Append(warnings, LowConfidenceWarning(result))
          /\ UNCHANGED result
       \/ /\ pc = "reconcile"
          /\ reExtracts(result, warnings, opts)
          /\ ~Answers("gemini")
          /\ waiting' \in GeminiCalls
          /\ result' = checkReconciliation(result, warnings).result
          /\ warnings' = Append(checkReconciliation(result, warnings).warnings,
                                ReExtractionWarning)
    /\ UNCHANGED <<opts, textLayer, pc, pdfType, errors, thrown, attempts>>
    /\ UNCHANGED <<silent, tick>>
    /\ UNCHANGED <<reconVars, ledgerVars, saveVars, textVars, filesVars, detectVars, storeVars, guestVars>>

\* one turn of the loop of lines 129-134: two seconds later the file is
\* still PROCESSING
PollFileState ==
    /\ waiting = "files.get"
    /\ tick' = ~tick
    /\ UNCHANGED <<silent, waiting>>
    /\ UNCHANGED notAwaitVars

NextBounded == Next \/ AwaitSilent \/ PollFileState

SpecBounded == InitBounded /\ [][NextBounded]_vars

FairBounded == SpecBounded /\ WF_vars(NextBounded)

Positions == {"detect", "route", "confidence", "reconcile", "finish", "catch", "done"}

\* a run is not abandoned: an awaited call settles and the function goes on
\* to its next step until it returns
FairSpec == Spec /\ WF_vars(Next)

(***************************************************************************)
(* Reconciliation of arbitrary statements: rows are appended one at a time *)
(* and lines 116-127 are then applied to the statement.                    *)
(***************************************************************************)
MaxRows == 3

RowChoices ==
    {[amount |-> Dec(50000), type |-> "credit"],
     [amount |-> Dec(20000), type |-> "debit"],
     [amount |-> Dec(1), type |-> "debit"],
     [amount |-> Dec(10), type |-> "credit"],
     [amount |-> Dec(20), type |-> "credit"],
     [amount |-> Dec(0 - 500), type |-> "unknown"],
     [amount |-> NoDec, type |-> "debit"]}

OpeningChoices == {NoDec, Dec(0), Dec(100000)}
ClosingChoices == {NoDec, Dec(30), Dec(129999), Dec(130000)}

\* the rows as the extractors hand them over
ParseRows(rows) == [i \in 1..Len(rows) |-> Row(ParseDec(rows[i].amount), rows[i].type, "")]

RunIdle ==
    /\ opts = [geminiKey |-> FALSE, forceMethod |-> "none",
               confidenceThreshold |-> DefaultConfidenceThreshold,
               enableReconciliation |-> TRUE]
    /\ textLayer = TextFailure("")
    /\ pc = "idle"
    /\ pdfType = NoType
    /\ result = InitialResult
    /\ errors = << >>
    /\ warnings = << >>
    /\ thrown = ""
    /\ attempts = << >>

InitRecon ==
    /\ GuestIdle
    /\ StoreIdle
    /\ DetectIdle
    /\ FilesIdle
    /\ AwaitIdle
    /\ TextIdle
    /\ RunIdle
    /\ rRows = << >>
    /\ rOpening \in OpeningChoices
    /\ rClosing \in ClosingChoices
    /\ rPc = "build"
    /\ rOut = NoVerdict
    /\ LedgerIdle
    /\ SaveIdle

AddRow ==
    /\ rPc = "build"
    /\ Len(rRows) < MaxRows
    /\ \E row \in RowChoices : rRows' = Append(rRows, row)
    /\ UNCHANGED <<rOpening, rClosing, rPc, rOut>>
    /\ UNCHANGED notReconVars

Reconcile ==
    /\ rPc = "build"
    /\ rOut' = checkReconciliation(
                   [InitialResult EXCEPT !.transactions = ParseRows(rRows),
                                         !.openingBalance = ParseDec(rOpening),
                                         !.closingBalance = ParseDec(rClosing)],
                   << >>)
    /\ rPc' = "reconciled"
    /\ UNCHANGED <<rRows, rOpening, rClosing>>
    /\ UNCHANGED notReconVars

NextRecon == AddRow \/ Reconcile

SpecRecon == InitRecon /\ [][NextRecon]_vars

(***************************************************************************)
(* reconcileTransactions (processing/reconciler.ts) over stored            *)
(* transactions, whose isExcluded flag the grid toggles (handleRowExclude).*)
(***************************************************************************)
MaxLedger == 2

\* a Transaction as far as the reconciler reads it
Stored(rowIndex, credit, debit) ==
    [rowIndex |-> rowIndex, credit |-> credit, debit |-> debit, isExcluded |-> FALSE]

\* tx.credit || 0
OrZero(x) == IF x.isNull \/ x.mag = << >> THEN Zero ELSE x

\* line 11: the copy sorted by rowIndex; the sort is stable
RECURSIVE InsertByRowIndex(_, _)
InsertByRowIndex(sorted, tx) ==
    IF sorted = << >> THEN <<tx>>
    ELSE IF sorted[Len(sorted)].rowIndex <= tx.rowIndex THEN Append(sorted, tx)
    ELSE Append(InsertByRowIndex(SubSeq(sorted, 1, Len(sorted) - 1), tx),
                sorted[Len(sorted)])

RECURSIVE SortByRowIndex(_, _)
SortByRowIndex(transactions, n) ==
    IF n = 0 THEN << >>
    ELSE InsertByRowIndex(SortByRowIndex(transactions, n - 1), transactions[n])

\* the forEach of lines 13-23 without its test of isExcluded
RECURSIVE currentBalanceOfAll(_, _, _)
currentBalanceOfAll(sorted, i, balance) ==
    IF i > Len(sorted) THEN balance
    ELSE currentBalanceOfAll(sorted, i + 1,
             FSub(FAdd(balance, OrZero(sorted[i].credit)), OrZero(sorted[i].debit)))

\* the forEach of lines 13-23, from row i on, with the running balance
RECURSIVE currentBalance(_, _, _)
currentBalance(sorted, i, balance) ==
    IF i > Len(sorted) THEN balance
    ELSE IF sorted[i].isExcluded THEN currentBalance(sorted, i + 1, balance)
    ELSE currentBalance(sorted, i + 1,
             FSub(FAdd(balance, OrZero(sorted[i].credit)), OrZero(sorted[i].debit)))

reconcileTransactions(transactions, openingBalance) ==
    With(SortByRowIndex(transactions, Len(transactions)), LAMBDA sorted :
        With(currentBalance(sorted, 1, openingBalance), LAMBDA balance :
            [isReconciled |-> TRUE, calculatedClosing |-> Round2(balance),
             difference |-> Zero]))

\* the optimistic update of handleRowExclude: the row's flag is negated
handleRowExclude(transactions, i) ==
    [transactions EXCEPT ![i].isExcluded = ~transactions[i].isExcluded]

StoredChoices ==
    {[credit |-> Dec(10), debit |-> NoDec],
     [credit |-> Dec(20), debit |-> NoDec],
     [credit |-> NoDec, debit |-> Dec(20001)],
     [credit |-> Dec(50000), debit |-> Dec(0)],
     [credit |-> NoDec, debit |-> NoDec]}

LedgerOpenings == {Dec(0), Dec(100000)}

InitLedger ==
    /\ GuestIdle
    /\ StoreIdle
    /\ DetectIdle
    /\ FilesIdle
    /\ AwaitIdle
    /\ TextIdle
    /\ RunIdle
    /\ ReconIdle
    /\ lRows = << >>
    /\ lOpening \in LedgerOpenings
    /\ lPc = "build"
    /\ lOut = NoLegacyVerdict
    /\ SaveIdle

\* a row enters the list, before or after the rows already there
AddStored ==
    /\ lPc = "build"
    /\ Len(lRows) < MaxLedger
    /\ \E c \in StoredChoices :
         LET tx == Stored(Len(lRows), ParseDec(c.credit), ParseDec(c.debit))
         IN  lRows' \in {Append(lRows, tx), <<tx>> \o lRows}
    /\ UNCHANGED <<lOpening, lPc, lOut>>
    /\ UNCHANGED notLedgerVars

ExcludeRow ==
    /\ lRows # << >>
    /\ \E i \in 1..Len(lRows) : lRows' = handleRowExclude(lRows, i)
    /\ lPc' = "build"
    /\ UNCHANGED <<lOpening, lOut>>
    /\ UNCHANGED notLedgerVars

ReconcileLedger ==
    /\ lPc = "build"
    /\ lOut' = reconcileTransactions(lRows, ParseDec(lOpening))
    /\ lPc' = "reconciled"
    /\ UNCHANGED <<lRows, lOpening>>
    /\ UNCHANGED notLedgerVars

NextLedger == AddStored \/ ExcludeRow \/ ReconcileLedger

SpecLedger == InitLedger /\ [][NextLedger]_vars

(***************************************************************************)
(* The map of the process routes from the transactions of a processing     *)
(* result to the rows of the transactions table (process/route.ts lines    *)
(* 170-190, process-background/route.ts lines 125-142).  A transaction     *)
(* carries an amount (a number or null), a type and a confidence (a number,*)
(* or Null when the row has none).                                         *)
(***************************************************************************)
MaxRaw == 2

Routes == {"process", "process-background"}

\* tx.amount ?? 0
amount(tx) == IF tx.amount.isNull THEN Zero ELSE tx.amount

isDebit(tx) == tx.type = "debit" \/ FLess(amount(tx), Zero)

absAmount(tx) == FAbs(amount(tx))

debit(tx) == IF isDebit(tx) THEN absAmount(tx) ELSE Null

\* a credit field that is filled whatever isDebit says
creditAlways(route, tx) == absAmount(tx)

credit(route, tx) ==
    IF route = "process"
    THEN IF ~isDebit(tx) /\ amount(tx) # Zero THEN absAmount(tx) ELSE Null
    ELSE IF ~isDebit(tx) THEN absAmount(tx) ELSE Null

Hundred == FromInt(100)

\* (tx.confidence * 100) || 100
confidence_scoreCoerced(route, tx) ==
    IF tx.confidence.isNull THEN Hundred
    ELSE With(FMul100(tx.confidence), LAMBDA score :
             IF score = Zero THEN Hundred ELSE score)

confidence_score(route, tx) ==
    IF ~tx.confidence.isNull THEN FMul100(tx.confidence)
    ELSE IF route = "process" THEN Hundred ELSE Zero

transactionsWithIds(route, transactions) ==
    [i \in 1..Len(transactions) |->
        [row_index |-> i - 1,
         debit |-> debit(transactions[i]),
         credit |-> credit(route, transactions[i]),
         confidence_score |-> confidence_score(route, transactions[i])]]

AmountChoices == {NoDec, Dec(0), Dec(4500), Dec(0 - 4500)}
TypeChoices == {"debit", "credit", "unknown"}
\* per-item confidences in hundredths; NoDec is a row without the field
ConfidenceChoices == {NoDec, Dec(0), Dec(7), Dec(100)}

RawChoices == [amount : AmountChoices, type : TypeChoices, confidence : ConfidenceChoices]

ParseRaw(raw) ==
    [i \in 1..Len(raw) |->
        [amount |-> ParseDec(raw[i].amount), type |-> raw[i].type,
         confidence |-> ParseDec(raw[i].confidence)]]

InitSave ==
    /\ GuestIdle
    /\ StoreIdle
    /\ DetectIdle
    /\ FilesIdle
    /\ AwaitIdle
    /\ TextIdle
    /\ RunIdle
    /\ ReconIdle
    /\ LedgerIdle
    /\ sRoute \in Routes
    /\ sRaw = << >>
    /\ sRows = << >>
    /\ sPc = "processed"

\* one more transaction in the processing result
Extracted ==
    /\ sPc = "processed"
    /\ Len(sRaw) < MaxRaw
    /\ \E tx \in RawChoices : sRaw' = Append(sRaw, tx)
    /\ UNCHANGED <<sRoute, sRows, sPc>>
    /\ UNCHANGED notSaveVars

\* the success branch of POST: the rows are mapped and created
Save ==
    /\ sPc = "processed"
    /\ sRaw # << >>
    /\ sRows' = transactionsWithIds(sRoute, ParseRaw(sRaw))
    /\ sPc' = "saved"
    /\ UNCHANGED <<sRoute, sRaw>>
    /\ UNCHANGED notSaveVars

NextSave == Extracted \/ Save

SpecSave == InitSave /\ [][NextSave]_vars

(***************************************************************************)
(* Regular expressions as the extractors use them (native-pdf-extractor.ts)*)
(* over texts that are sequences of characters.  A match state is the      *)
(* position of the next character and the bounds of capture group 1; Ends  *)
(* lists the states a pattern can end in, in the order a backtracking      *)
(* matcher tries them, so its head is the match the engine reports.        *)
(***************************************************************************)
Digits == <<"0", "1", "2", "3", "4", "5", "6", "7", "8", "9">>
LowerLetters ==
    <<"a", "b", "c", "d", "e", "f", "g", "h", "i", "j", "k", "l", "m",
      "n", "o", "p", "q", "r", "s", "t", "u", "v", "w", "x", "y", "z">>
UpperLetters ==
    <<"A", "B", "C", "D", "E", "F", "G", "H", "I", "J", "K", "L", "M",
      "N", "O", "P", "Q", "R", "S", "T", "U", "V", "W", "X", "Y", "Z">>

Elements(q) == {q[i] : i \in 1..Len(q)}

\* \d, \s and \w
DigitClass == Elements(Digits)
SpaceClass == {" ", "\t", "\n"}
WordClass == DigitClass \cup Elements(LowerLetters) \cup Elements(UpperLetters) \cup {"_"}

IndexIn(q, c) == CHOOSE i \in 1..Len(q) : q[i] = c

\* the characters a letter of a pattern with the i flag matches
AnyCase(c) ==
    IF c \in Elements(LowerLetters) THEN {c, UpperLetters[IndexIn(LowerLetters, c)]}
    ELSE IF c \in Elements(UpperLetters) THEN {c, LowerLetters[IndexIn(UpperLetters, c)]}
    ELSE {c}

Set(chars) == [op |-> "set", chars |-> chars]
Dot == [op |-> "dot"]
Cat(parts) == [op |-> "cat", parts |-> parts]
Alt(parts) == [op |-> "alt", parts |-> parts]
Rep(of, min, max, greedy) == [op |-> "rep", of |-> of, min |-> min, max |-> max, greedy |-> greedy]
Unbounded == 0 - 1
Opt(of) == Rep(of, 0, 1, TRUE)
Star(of) == Rep(of, 0, Unbounded, TRUE)
Plus(of) == Rep(of, 1, Unbounded, TRUE)
LazyStar(of) == Rep(of, 0, Unbounded, FALSE)
Open == [op |-> "open"]
Close == [op |-> "close"]
\* $ of a pattern with the m flag, and of one without it
EndOfLine == [op |-> "eol"]
EndOfText == [op |-> "eot"]
Lit(chars) == Cat([i \in 1..Len(chars) |-> Set({chars[i]})])
LitI(chars) == Cat([i \in 1..Len(chars) |-> Set(AnyCase(chars[i]))])

At(pos) == [pos |-> pos, gs |-> 0, ge |-> 0]

\* whether the pattern of one character r matches the character c
MatchesChar(r, c) == IF r.op = "set" THEN c \in r.chars ELSE c # "\n"

\* the characters from position pos on that all match r, at most cap of them
RunLength(r, s, pos, cap) ==
    CHOOSE n \in 0..cap :
        /\ \A j \in 0..(n - 1) : MatchesChar(r, s[pos + j])
        /\ n = cap \/ ~MatchesChar(r, s[pos + n])

\* the ends of a repetition of a pattern of one character that can match
\* run times: the longest first when it is greedy, the shortest first when
\* it is lazy
EndsRun(r, st, run) ==
    IF run < r.min THEN << >>
    ELSE [k \in 1..(run - r.min + 1) |->
             [st EXCEPT !.pos = st.pos + (IF r.greedy THEN run - k + 1 ELSE r.min + k - 1)]]

RECURSIVE Ends(_, _, _)
RECURSIVE EndsCat(_, _, _, _)
RECURSIVE EndsEach(_, _, _, _, _)
RECURSIVE EndsAlt(_, _, _, _)
RECURSIVE EndsRep(_, _, _, _)
RECURSIVE EndsMore(_, _, _, _, _, _)

\* the parts of a sequence from part k on, after state st
EndsCat(parts, k, s, st) ==
    IF k > Len(parts) THEN <<st>>
    ELSE EndsEach(parts, k, s, Ends(parts[k], s, st), 1)

\* the rest of the sequence after each state of from, in order
EndsEach(parts, k, s, from, j) ==
    IF j > Len(from) THEN << >>
    ELSE EndsCat(parts, k + 1, s, from[j]) \o EndsEach(parts, k, s, from, j + 1)

EndsAlt(parts, k, s, st) ==
    IF k > Len(parts) THEN << >>
    ELSE Ends(parts[k], s, st) \o EndsAlt(parts, k + 1, s, st)

\* a repetition that has matched n times already: it stops here or goes on
EndsRep(r, n, s, st) ==
    IF r.max # Unbounded /\ n >= r.max THEN <<st>>
    ELSE IF n < r.min THEN EndsMore(r, n, s, st.pos, Ends(r.of, s, st), 1)
    ELSE IF r.greedy THEN EndsMore(r, n, s, st.pos, Ends(r.of, s, st), 1) \o <<st>>
    ELSE <<st>> \o EndsMore(r, n, s, st.pos, Ends(r.of, s, st), 1)

\* one more repetition after each state of from that consumed something
EndsMore(r, n, s, pos, from, j) ==
    IF j > Len(from) THEN << >>
    ELSE (IF from[j].pos > pos THEN EndsRep(r, n + 1, s, from[j]) ELSE << >>)
         \o EndsMore(r, n, s, pos, from, j + 1)

Ends(r, s, st) ==
    IF r.op \in {"set", "dot"}
    THEN IF st.pos <= Len(s) /\ MatchesChar(r, s[st.pos])
         THEN <<[st EXCEPT !.pos = st.pos + 1]>> ELSE << >>
    ELSE IF r.op = "cat" THEN EndsCat(r.parts, 1, s, st)
    ELSE IF r.op = "alt" THEN EndsAlt(r.parts, 1, s, st)
    ELSE IF r.op = "rep"
    THEN IF r.of.op \in {"set", "dot"}
         THEN EndsRun(r, st,
                  RunLength(r.of, s, st.pos,
                            IF r.max = Unbounded \/ r.max > Len(s) - st.pos + 1
                            THEN Len(s) - st.pos + 1 ELSE r.max))
         ELSE EndsRep(r, 0, s, st)
    ELSE IF r.op = "open" THEN <<[st EXCEPT !.gs = st.pos]>>
    ELSE IF r.op = "close" THEN <<[st EXCEPT !.ge = st.pos]>>
    ELSE IF r.op = "eol"
    THEN IF st.pos > Len(s) \/ s[st.pos] = "\n" THEN <<st>> ELSE << >>
    ELSE IF st.pos > Len(s) THEN <<st>> ELSE << >>

NoMatch == [found |-> FALSE, index |-> 0, end |-> 0, gs |-> 0, ge |-> 0]

\* RegExp.prototype.exec: the leftmost match at or after position from
exec(r, s, from) ==
    With({i \in from..(Len(s) + 1) : Ends(r, s, At(i)) # << >>}, LAMBDA starts :
        IF starts = {} THEN NoMatch
        ELSE With(CHOOSE i \in starts : \A j \in starts : i <= j, LAMBDA index :
                With(Ends(r, s, At(index))[1], LAMBDA end :
                    [found |-> TRUE, index |-> index, end |-> end.pos,
                     gs |-> end.gs, ge |-> end.ge])))

\* the text of a match, and of its group 1
Matched(s, m) == SubSeq(s, m.index, m.end - 1)
Group1(s, m) == SubSeq(s, m.gs, m.ge - 1)

\* String.prototype.match with a g pattern: every match, left to right
RECURSIVE matchAll(_, _, _)
matchAll(r, s, from) ==
    With(exec(r, s, from), LAMBDA m :
        IF ~m.found THEN << >>
        ELSE <<Matched(s, m)>>
             \o matchAll(r, s, IF m.end > m.index THEN m.end ELSE m.end + 1))

(***************************************************************************)
(* String methods the extractors call                                      *)
(***************************************************************************)
\* String.prototype.indexOf: 0 when sub does not occur in s
RECURSIVE indexFrom(_, _, _)
indexFrom(s, sub, i) ==
    IF i + Len(sub) - 1 > Len(s) THEN 0
    ELSE IF SubSeq(s, i, i + Len(sub) - 1) = sub THEN i
    ELSE indexFrom(s, sub, i + 1)

includes(s, sub) == indexFrom(s, sub, 1) # 0

\* s.replace(sub, ''): the first occurrence of a string is removed
remove(s, sub) ==
    With(indexFrom(s, sub, 1), LAMBDA i :
        IF i = 0 THEN s
        ELSE SubSeq(s, 1, i - 1) \o SubSeq(s, i + Len(sub), Len(s)))

\* s.replace(/[...]/g, ''): every character of the class is removed
RECURSIVE removeAll(_, _)
removeAll(s, chars) ==
    IF s = << >> THEN << >>
    ELSE (IF s[1] \in chars THEN << >> ELSE <<s[1]>>) \o removeAll(Tail(s), chars)

RECURSIVE trimStart(_)
trimStart(s) == IF s # << >> /\ s[1] \in SpaceClass THEN trimStart(Tail(s)) ELSE s

RECURSIVE trimEnd(_)
trimEnd(s) ==
    IF s # << >> /\ s[Len(s)] \in SpaceClass THEN trimEnd(SubSeq(s, 1, Len(s) - 1)) ELSE s

trim(s) == trimEnd(trimStart(s))

\* s.replace(/\s+/g, ' ')
RECURSIVE collapseSpaces(_)
collapseSpaces(s) ==
    IF s = << >> THEN << >>
    ELSE IF s[1] \in SpaceClass THEN <<" ">> \o collapseSpaces(trimStart(s))
    ELSE <<s[1]>> \o collapseSpaces(Tail(s))

substring(s, from, to) == SubSeq(s, from + 1, IF to < Len(s) THEN to ELSE Len(s))

\* the decimal digits of a natural number, as in a template literal
RECURSIVE Decimal(_)
Decimal(n) == IF n < 10 THEN <<Digits[n + 1]>> ELSE Decimal(n \div 10) \o <<Digits[(n % 10) + 1]>>

DigitValue(c) == IndexIn(Digits, c) - 1

\* the length of the run of digits of s that starts at position i
RECURSIVE DigitRun(_, _)
DigitRun(s, i) == IF i <= Len(s) /\ s[i] \in DigitClass THEN 1 + DigitRun(s, i + 1) ELSE 0

\* the natural number that the digits s[i], ..., s[i + n - 1] write, as limbs
RECURSIVE DigitsValue(_, _, _)
DigitsValue(s, i, n) ==
    IF n = 0 THEN << >>
    ELSE BAdd(BMulSmall(DigitsValue(s, i, n - 1), 10), BFromInt(DigitValue(s[i + n - 1])))

NaN == [isNull |-> FALSE, neg |-> FALSE, mag |-> << >>, nan |-> TRUE]
isNaN(x) == "nan" \in DOMAIN x

\* m / d for a natural number m (limbs) and a power of ten d, correctly
\* rounded
DivNat(m, d) ==
    With2(m, d, LAMBDA v, k :
        With(BDivSmall(BShiftL(v, FracBits + LimbBits), k), LAMBDA q :
            BShiftR(Round53(BAdd(BShiftL(q.q, 1), IF q.r = 0 THEN << >> ELSE <<1>>)),
                    LimbBits + 1)))

MaxFraction == 4

\* parseFloat: leading white space, a sign, digits and a fraction are read,
\* what follows them is ignored.  Fractions have at most MaxFraction digits
\* in the texts of the model.
parseFloat(s) ==
    With(trimStart(s), LAMBDA t :
        LET signed == t # << >> /\ t[1] \in {"-", "+"}
            first == IF signed THEN 2 ELSE 1
            whole == DigitRun(t, first)
            dot == first + whole
            fraction == IF dot <= Len(t) /\ t[dot] = "." THEN DigitRun(t, dot + 1) ELSE 0
        IN  IF whole = 0 /\ fraction = 0 THEN NaN
            ELSE IF fraction > MaxFraction THEN CHOOSE x \in {} : TRUE
            ELSE Num(signed /\ t[1] = "-",
                     DivNat(DigitsValue(removeAll(SubSeq(t, first, IF fraction > 0 THEN dot + fraction
                                                                            ELSE dot - 1), {"."}),
                                        1, whole + fraction),
                            10^fraction)))

(***************************************************************************)
(* parseTransactionLine (native-pdf-extractor.ts)                          *)
(***************************************************************************)
Digit == Set(DigitClass)
Space == Set(SpaceClass)
Word == Set(WordClass)
Char(c) == Set({c})

DATE_PATTERNS_WITH_OPTIONAL_YEAR ==
    <<Cat(<<Rep(Digit, 1, 2, TRUE), Char("/"), Rep(Digit, 1, 2, TRUE),
            Opt(Cat(<<Char("/"), Rep(Digit, 2, 4, TRUE)>>))>>),
      Cat(<<Rep(Digit, 1, 2, TRUE), Char("-"), Rep(Digit, 1, 2, TRUE),
            Opt(Cat(<<Char("-"), Rep(Digit, 2, 4, TRUE)>>))>>),
      Cat(<<Rep(Digit, 1, 2, TRUE), Plus(Space), Rep(Word, 3, 3, TRUE),
            Opt(Cat(<<Plus(Space), Rep(Digit, 4, 4, TRUE)>>))>>),
      Cat(<<Rep(Word, 3, 3, TRUE), Plus(Space), Rep(Digit, 1, 2, TRUE), Opt(Char(",")),
            Opt(Cat(<<Plus(Space), Rep(Digit, 4, 4, TRUE)>>))>>)>>

\* the currency sign statements are printed with here; the pattern takes the
\* yen, euro and pound signs in the same place
CurrencySigns == {"$"}

AMOUNT_PATTERN ==
    Cat(<<Opt(Set(CurrencySigns)), Star(Space), Opt(Char("-")), Opt(Char("(")),
          Rep(Digit, 1, 3, TRUE), Star(Cat(<<Char(","), Rep(Digit, 3, 3, TRUE)>>)),
          Opt(Cat(<<Char("."), Rep(Digit, 2, 2, TRUE)>>)), Opt(Char(")"))>>)

\* amt.replace(/[$,()...]/g, '')
bare(amt) == removeAll(amt, CurrencySigns \cup {",", "(", ")"})

\* lines 258-286: the first pattern that matches gives the date
RECURSIVE findDate(_, _, _)
findDate(line, defaultYear, k) ==
    IF k > Len(DATE_PATTERNS_WITH_OPTIONAL_YEAR)
    THEN [found |-> FALSE, date |-> << >>, textWithoutDate |-> line]
    ELSE With(exec(DATE_PATTERNS_WITH_OPTIONAL_YEAR[k], line, 1), LAMBDA match :
            IF ~match.found THEN findDate(line, defaultYear, k + 1)
            ELSE With(Matched(line, match), LAMBDA fullMatch :
                    [found |-> TRUE,
                     date |-> IF exec(Rep(Digit, 4, 4, TRUE), fullMatch, 1).found
                              THEN fullMatch
                              ELSE IF includes(fullMatch, <<"-">>)
                              THEN fullMatch \o <<"-">> \o Decimal(defaultYear)
                              ELSE IF includes(fullMatch, <<"/">>)
                              THEN fullMatch \o <<"/">> \o Decimal(defaultYear)
                              ELSE fullMatch \o <<" ">> \o Decimal(defaultYear),
                     textWithoutDate |-> trim(remove(line, fullMatch))]))

\* lines 294-297
RECURSIVE validAmounts(_)
validAmounts(amounts) ==
    IF amounts = << >> THEN << >>
    ELSE With(parseFloat(remove(bare(amounts[1]), <<"-">>)), LAMBDA num :
            (IF ~isNaN(num) /\ ~FLess(num, Cent) /\ FLess(num, FromInt(100000000))
             THEN <<amounts[1]>> ELSE << >>)
            \o validAmounts(Tail(amounts)))

\* lines 317-320
RECURSIVE withoutAmounts(_, _)
withoutAmounts(description, amts) ==
    IF amts = << >> THEN description
    ELSE withoutAmounts(trim(remove(description, amts[1])), Tail(amts))

NoTransaction == [isNull |-> TRUE]

\* lines 329-332
lineConfidence(amountValue, description) ==
    With(FAdd(FromCents(50), FromCents(20)), LAMBDA dated :
        With(IF FLess(Zero, amountValue) THEN FAdd(dated, FromCents(20)) ELSE dated,
             LAMBDA valued :
                IF Len(description) > 10 THEN FAdd(valued, FromCents(10)) ELSE valued))

\* lines 290 to the end, for a line whose date has been found
parseDated(line, d) ==
    With(validAmounts(matchAll(AMOUNT_PATTERN, d.textWithoutDate, 1)), LAMBDA valid :
        IF valid = << >> THEN NoTransaction
        ELSE With(valid[Len(valid)], LAMBDA amountStr :
             With(parseFloat(remove(bare(amountStr), <<"-">>)), LAMBDA amountValue :
                IF isNaN(amountValue) \/ amountValue = Zero THEN NoTransaction
                ELSE With(collapseSpaces(withoutAmounts(d.textWithoutDate, valid)),
                          LAMBDA spaced :
                     With(trim(spaced), LAMBDA description :
                        IF Len(description) < 3 THEN NoTransaction
                        ELSE LET isNegative == includes(amountStr, <<"(">>)
                                                  \/ includes(amountStr, <<"-">>)
                                 type == IF isNegative THEN "debit" ELSE "unknown"
                             IN  [isNull |-> FALSE,
                                  date |-> d.date,
                                  description |-> substring(description, 0, 200),
                                  amount |-> IF type = "debit" THEN FNeg(amountValue)
                                                               ELSE amountValue,
                                  type |-> type,
                                  balance |-> IF Len(valid) > 1
                                              THEN parseFloat(bare(valid[1]))
                                              ELSE Null,
                                  confidence |-> lineConfidence(amountValue, description),
                                  rawText |-> line])))))

parseTransactionLine(line, lineIndex, defaultYear) ==
    With(findDate(line, defaultYear, 1), LAMBDA d :
        IF ~d.found THEN NoTransaction ELSE parseDated(line, d))

(***************************************************************************)
(* parseTransactionsFromLines (native-pdf-extractor.ts)                    *)
(***************************************************************************)
\* RegExp.prototype.test of a pattern without flags g or y
test(r, s) == exec(r, s, 1).found

\* the same for a pattern that opens with ^
testAtStart(r, s) == Ends(r, s, At(1)) # << >>

skipPatterns ==
    <<Cat(<<LitI(<<"p", "a", "g", "e">>), Star(Space), Plus(Digit)>>),
      LitI(<<"c", "o", "n", "t", "i", "n", "u", "e", "d">>),
      Cat(<<LitI(<<"c", "u", "s", "t", "o", "m", "e", "r">>), Star(Space),
            LitI(<<"s", "e", "r", "v", "i", "c", "e">>)>>),
      LitI(<<"w", "w", "w", ".">>),
      Cat(<<LitI(<<"p", "r", "i", "v", "a", "c", "y">>), Star(Space),
            LitI(<<"n", "o", "t", "i", "c", "e">>)>>),
      Cat(<<LitI(<<"s", "t", "a", "t", "e", "m", "e", "n", "t">>), Star(Space),
            LitI(<<"d", "a", "t", "e">>)>>),
      Cat(<<LitI(<<"a", "c", "c", "o", "u", "n", "t">>), Star(Space),
            LitI(<<"n", "u", "m", "b", "e", "r">>)>>),
      Cat(<<LitI(<<"y", "o", "u", "r">>), Star(Space),
            LitI(<<"f", "i", "n", "a", "n", "c", "i", "a", "l">>), Star(Space),
            LitI(<<"s", "t", "a", "t", "u", "s">>)>>),
      Cat(<<LitI(<<"c", "o", "n", "s", "o", "l", "i", "d", "a", "t", "e", "d">>), Star(Space),
            LitI(<<"s", "t", "a", "t", "e", "m", "e", "n", "t">>)>>)>>

\* the two patterns of the list that open with ^
skipPatternsAtStart ==
    <<Cat(<<LitI(<<"d", "a", "t", "e">>), Plus(Space),
            LitI(<<"d", "e", "s", "c", "r", "i", "p", "t", "i", "o", "n">>)>>),
      Cat(<<LitI(<<"t", "r", "a", "n", "s", "a", "c", "t", "i", "o", "n">>), Plus(Space),
            LitI(<<"d", "e", "t", "a", "i", "l">>)>>)>>

isHeaderOrFooter(text) ==
    \/ \E k \in 1..Len(skipPatterns) : test(skipPatterns[k], text)
    \/ \E k \in 1..Len(skipPatternsAtStart) : testAtStart(skipPatternsAtStart[k], text)

\* fullText.split('\n')
RECURSIVE split(_, _)
split(text, from) ==
    IF indexFrom(text, <<"\n">>, from) = 0
    THEN <<SubSeq(text, from, Len(text))>>
    ELSE <<SubSeq(text, from, indexFrom(text, <<"\n">>, from) - 1)>>
         \o split(text, indexFrom(text, <<"\n">>, from) + 1)

\* .filter(line => line.trim())
RECURSIVE nonBlank(_)
nonBlank(lines) ==
    IF lines = << >> THEN << >>
    ELSE (IF trim(lines[1]) # << >> THEN <<lines[1]>> ELSE << >>) \o nonBlank(Tail(lines))

RECURSIVE parseTransactionsFrom(_, _, _)
parseTransactionsFrom(lines, i, defaultYear) ==
    IF i > Len(lines) THEN << >>
    ELSE (IF isHeaderOrFooter(trim(lines[i])) THEN << >>
          ELSE With(parseTransactionLine(trim(lines[i]), i - 1, defaultYear), LAMBDA transaction :
                  IF transaction.isNull THEN << >> ELSE <<transaction>>))
         \o parseTransactionsFrom(lines, i + 1, defaultYear)

parseTransactionsFromLines(lines, defaultYear) == parseTransactionsFrom(lines, 1, defaultYear)

(***************************************************************************)
(* extractBalances (native-pdf-extractor.ts)                               *)
(***************************************************************************)
Words(alternatives) == Alt([i \in 1..Len(alternatives) |-> LitI(alternatives[i])])

\* [:\s]
ColonOrSpace == Set({":"} \cup SpaceClass)
\* [\d,]
DigitOrComma == Set(DigitClass \cup {","})

\* [:\s]*[\$]?\s*([\d,]+\.?\d*)
LabelledNumber ==
    <<Star(ColonOrSpace), Opt(Char("$")), Star(Space),
      Open, Plus(DigitOrComma), Opt(Char(".")), Star(Digit), Close>>

\* ([\d,]+\.?\d{2})
TwoDecimals == <<Open, Plus(DigitOrComma), Opt(Char(".")), Rep(Digit, 2, 2, TRUE), Close>>

openingPatterns ==
    <<Cat(<<Words(<<<<"o", "p", "e", "n", "i", "n", "g">>,
                    <<"b", "e", "g", "i", "n", "n", "i", "n", "g">>,
                    <<"s", "t", "a", "r", "t", "i", "n", "g">>,
                    <<"p", "r", "e", "v", "i", "o", "u", "s">>>>),
            Star(Space), LitI(<<"b", "a", "l", "a", "n", "c", "e">>)>> \o LabelledNumber),
      Cat(<<LitI(<<"b", "a", "l", "a", "n", "c", "e">>), Star(Space),
            Alt(<<LitI(<<"f", "o", "r", "w", "a", "r", "d">>),
                  Cat(<<LitI(<<"b", "r", "o", "u", "g", "h", "t">>), Star(Space),
                        LitI(<<"f", "o", "r", "w", "a", "r", "d">>)>>)>>)>>
          \o LabelledNumber),
      Cat(<<LitI(<<"b", "a", "l", "a", "n", "c", "e">>), Star(Space),
            LitI(<<"f", "r", "o", "m">>), Star(Space),
            LitI(<<"p", "r", "e", "v", "i", "o", "u", "s">>), Star(Space),
            LitI(<<"s", "t", "a", "t", "e", "m", "e", "n", "t">>), LazyStar(Dot)>>
          \o TwoDecimals)>>

explicitClosingPattern ==
    Cat(<<LitI(<<"c", "l", "o", "s", "i", "n", "g">>), Star(Space),
          LitI(<<"b", "a", "l", "a", "n", "c", "e">>), LazyStar(Dot), Plus(ColonOrSpace)>>
        \o TwoDecimals)

genericClosingPatterns ==
    <<Cat(<<Words(<<<<"e", "n", "d", "i", "n", "g">>, <<"n", "e", "w">>,
                    <<"c", "u", "r", "r", "e", "n", "t">>>>),
            Star(Space), LitI(<<"b", "a", "l", "a", "n", "c", "e">>)>> \o LabelledNumber),
      Cat(<<LitI(<<"n", "e", "t">>), Star(Space),
            LitI(<<"p", "o", "s", "i", "t", "i", "o", "n">>)>> \o LabelledNumber),
      Cat(<<Words(<<<<"t", "o", "t", "a", "l">>, <<"b", "a", "l", "a", "n", "c", "e">>>>)>>
          \o LabelledNumber \o <<Star(Space), EndOfLine>>)>>

\* parseFloat(match[1].replace(/,/g, ''))
groupValue(text, match) == parseFloat(removeAll(Group1(text, match), {","}))

\* lines 167-173: the first opening pattern that matches
RECURSIVE findOpening(_, _)
findOpening(text, k) ==
    IF k > Len(openingPatterns) THEN Null
    ELSE With(exec(openingPatterns[k], text, 1), LAMBDA match :
            IF match.found THEN groupValue(text, match) ELSE findOpening(text, k + 1))

\* lines 177-180: every match of the explicit pattern, left to right
RECURSIVE explicitClosings(_, _)
explicitClosings(text, lastIndex) ==
    With(exec(explicitClosingPattern, text, lastIndex), LAMBDA match :
        IF ~match.found THEN << >>
        ELSE With(groupValue(text, match), LAMBDA val :
                (IF isNaN(val) THEN << >> ELSE <<val>>)
                \o explicitClosings(text, match.end)))

\* lines 183-189: the first match of each generic pattern
RECURSIVE genericClosings(_, _)
genericClosings(text, k) ==
    IF k > Len(genericClosingPatterns) THEN << >>
    ELSE With(exec(genericClosingPatterns[k], text, 1), LAMBDA match :
            (IF match.found /\ ~isNaN(groupValue(text, match))
             THEN <<groupValue(text, match)>> ELSE << >>)
            \o genericClosings(text, k + 1))

\* Math.max(...closingBalances) of a list that is not empty
RECURSIVE max(_)
max(closingBalances) ==
    IF Len(closingBalances) = 1 THEN closingBalances[1]
    ELSE With(max(Tail(closingBalances)), LAMBDA rest :
            IF FLess(closingBalances[1], rest) THEN rest ELSE closingBalances[1])

closingCandidates(text) ==
    With(explicitClosings(text, 1), LAMBDA closingBalances :
        IF closingBalances = << >> THEN genericClosings(text, 1) ELSE closingBalances)

extractBalances(text) ==
    With(closingCandidates(text), LAMBDA closingBalances :
        [openingBalance |-> findOpening(text, 1),
         closingBalance |-> IF closingBalances # << >> THEN max(closingBalances) ELSE Null])

(***************************************************************************)
(* The text of a statement and what the native extractor reads from it     *)
(***************************************************************************)
MaxLines == 2

\* an amount of whole cents as a statement prints it: 1,234.56
Printed(c) ==
    (IF c \div 100 >= 1000
     THEN Decimal(c \div 100000) \o <<",">>
          \o <<Digits[(((c \div 100) % 1000) \div 100) + 1],
               Digits[(((c \div 100) % 100) \div 10) + 1],
               Digits[((c \div 100) % 10) + 1]>>
     ELSE Decimal(c \div 100))
    \o <<".", Digits[((c % 100) \div 10) + 1], Digits[(c % 10) + 1]>>

NoColumn == 0 - 1

DateChoices == {<<"0", "1", "/", "1", "5", "/", "2", "0", "2", "4">>, <<"0", "1", "/", "1", "6">>}
DescriptionChoices == {<<"G", "R", "O", "C", "E", "R", "Y", " ", "S", "T", "O", "R", "E">>}
AmountColumnChoices == {4500, 2000}
BalanceColumnChoices == {NoColumn, 123456, 1000}
ClosingLineChoices == {129999, 3000}
Years == {2024}

\* a transaction row: date, description, amount column and, when the
\* statement has one, running-balance column
TransactionLine(date, description, amountColumn, balanceColumn) ==
    [kind |-> "transaction",
     text |-> date \o <<" ">> \o description \o <<" ">> \o Printed(amountColumn)
              \o (IF balanceColumn = NoColumn THEN << >>
                  ELSE <<" ">> \o Printed(balanceColumn)),
     amountColumn |-> amountColumn, balanceColumn |-> balanceColumn]

\* a line that states a balance under a label
BalanceLine(kind, label, value) ==
    [kind |-> kind, text |-> label \o Printed(value),
     amountColumn |-> value, balanceColumn |-> NoColumn]

LineChoices ==
    {TransactionLine(d, w, a, b) : d \in DateChoices, w \in DescriptionChoices,
                                   a \in AmountColumnChoices, b \in BalanceColumnChoices}
    \cup {BalanceLine("closing",
                      <<"C", "l", "o", "s", "i", "n", "g", " ", "B", "a", "l", "a", "n", "c", "e",
                        ":", " ">>, v) : v \in ClosingLineChoices}
    \cup {BalanceLine("ending",
                      <<"E", "n", "d", "i", "n", "g", " ", "b", "a", "l", "a", "n", "c", "e", " ">>,
                      3000),
          BalanceLine("opening",
                      <<"O", "p", "e", "n", "i", "n", "g", " ", "B", "a", "l", "a", "n", "c", "e",
                        ":", " ", "$">>, 100000),
          [kind |-> "footer", text |-> <<"P", "a", "g", "e", " ", "1">>,
           amountColumn |-> NoColumn, balanceColumn |-> NoColumn]}

RECURSIVE fullText(_)
fullText(written) ==
    IF written = << >> THEN << >>
    ELSE IF Len(written) = 1 THEN written[1].text
    ELSE written[1].text \o <<"\n">> \o fullText(Tail(written))

InitText ==
    /\ GuestIdle
    /\ StoreIdle
    /\ DetectIdle
    /\ FilesIdle
    /\ AwaitIdle
    /\ RunIdle
    /\ ReconIdle
    /\ LedgerIdle
    /\ SaveIdle
    /\ tWritten = << >>
    /\ tPc = "text"
    /\ tOut = NoExtraction

\* one more line in the text layer of the document
WriteLine ==
    /\ tPc = "text"
    /\ Len(tWritten) < MaxLines
    /\ \E line \in LineChoices : tWritten' = Append(tWritten, line)
    /\ UNCHANGED <<tPc, tOut>>
    /\ UNCHANGED notTextVars

\* extractFromNativePDF once the text is there: lines 76-92
ExtractText ==
    /\ tPc = "text"
    /\ tWritten # << >>
    /\ \E currentYear \in Years :
        \E text \in {fullText(tWritten)} :
            tOut' = [transactions |->
                        parseTransactionsFromLines(nonBlank(split(text, 1)), currentYear),
                     openingBalance |-> extractBalances(text).openingBalance,
                     closingBalance |-> extractBalances(text).closingBalance]
    /\ tPc' = "extracted"
    /\ UNCHANGED tWritten
    /\ UNCHANGED notTextVars

NextText == WriteLine \/ ExtractText

SpecText == InitText /\ [][NextText]_vars

(***************************************************************************)
(* extractWithGemini and its temporary file, for MaxCalls calls that run   *)
(* at the same time.  A call moves from one await to the next.             *)
(***************************************************************************)
MaxCalls == 2

Calls == 1..MaxCalls

NoName == 0

\* the names a call has been given so far
Issued == {fName[c] : c \in Calls} \ {NoName}

\* one name for every call
tempFileShared(issued) == {1}

\* line 93: join(tmpdir(), `gemini-${randomUUID()}.pdf`), a name no earlier
\* call was given
tempFile(issued) == (1..MaxCalls) \ issued

InitFiles ==
    /\ GuestIdle
    /\ StoreIdle
    /\ DetectIdle
    /\ AwaitIdle
    /\ TextIdle
    /\ RunIdle
    /\ ReconIdle
    /\ LedgerIdle
    /\ SaveIdle
    /\ fKey \in BOOLEAN
    /\ fPc = [c \in Calls |-> "called"]
    /\ fName = [c \in Calls |-> NoName]
    /\ files = {}

\* lines 89-93
EnterCall(c) ==
    /\ fPc[c] = "called"
    /\ IF ~fKey
       THEN /\ fPc' = [fPc EXCEPT ![c] = "returned"]
            /\ UNCHANGED fName
       ELSE /\ \E name \in tempFile(Issued) : fName' = [fName EXCEPT ![c] = name]
            /\ fPc' = [fPc EXCEPT ![c] = "try"]
    /\ UNCHANGED <<fKey, files>>
    /\ UNCHANGED notFilesVars

\* lines 97-110 and 153-177: the client is made (or its constructor throws)
\* and the size of the buffer picks the path
ChoosePath(c) ==
    /\ fPc[c] = "try"
    /\ \E next \in {"writeFile", "generateContent", "finally"} :
         fPc' = [fPc EXCEPT ![c] = next]
    /\ UNCHANGED <<fKey, fName, files>>
    /\ UNCHANGED notFilesVars

\* line 110: the file is written, or writeFile rejects and leaves nothing
\* or a part of the file behind
WriteTempFile(c) ==
    /\ fPc[c] = "writeFile"
    /\ \/ /\ files' = files \cup {fName[c]}
          /\ fPc' = [fPc EXCEPT ![c] = "upload"]
       \/ /\ files' \in {files, files \cup {fName[c]}}
          /\ fPc' = [fPc EXCEPT ![c] = "finally"]
    /\ UNCHANGED <<fKey, fName>>
    /\ UNCHANGED notFilesVars

\* lines 113-123: the upload returns a file with a uri, returns none, or
\* rejects
UploadFile(c) ==
    /\ fPc[c] = "upload"
    /\ \E next \in {"state", "finally"} : fPc' = [fPc EXCEPT ![c] = next]
    /\ UNCHANGED <<fKey, fName, files>>
    /\ UNCHANGED notFilesVars

\* lines 128-138: the state of the file is ACTIVE, or FAILED, or files.get
\* rejects
FileState(c) ==
    /\ fPc[c] = "state"
    /\ \E next \in {"generateContent", "finally"} : fPc' = [fPc EXCEPT ![c] = next]
    /\ UNCHANGED <<fKey, fName, files>>
    /\ UNCHANGED notFilesVars

\* lines 179-219: generateContent returns or rejects, the text is parsed or
\* JSON.parse throws; every way leads through the finally block
GenerateContent(c) ==
    /\ fPc[c] = "generateContent"
    /\ fPc' = [fPc EXCEPT ![c] = "finally"]
    /\ UNCHANGED <<fKey, fName, files>>
    /\ UNCHANGED notFilesVars

\* lines 227-234: unlink removes the file; when there is none it rejects
\* and the rejection is ignored
Cleanup(c) ==
    /\ fPc[c] = "finally"
    /\ files' = files \ {fName[c]}
    /\ fPc' = [fPc EXCEPT ![c] = "returned"]
    /\ UNCHANGED <<fKey, fName>>
    /\ UNCHANGED notFilesVars

NextFiles ==
    \E c \in Calls :
        \/ EnterCall(c)
        \/ ChoosePath(c)
        \/ WriteTempFile(c)
        \/ UploadFile(c)
        \/ FileState(c)
        \/ GenerateContent(c)
        \/ Cleanup(c)

SpecFiles == InitFiles /\ [][NextFiles]_vars

(***************************************************************************)
(* detectPDFType (pdf-type-detector.ts) with the extractTextFromPDF it     *)
(* imports (pdftotext-extractor.ts), on documents of up to MaxPages pages  *)
(***************************************************************************)
MaxPages == 2

\* lines 47-57 of pdftotext-extractor.ts: the buffer is not read
extractTextFromPDF(buffer) ==
    TextFailure("Sync extraction not supported. Use extractTextFromPDFAsync.")

\* characters per page around the thresholds, and the pages
PerPageChoices == {0, 49, 50, 51, 100, 199, 200, 201, 300, 499, 500, 501, 600}

Documents ==
    {[chars |-> (k * n) + extra, pageCount |-> n] :
        k \in PerPageChoices, n \in 1..MaxPages, extra \in {0, 1, 2}}

InitDetect ==
    /\ GuestIdle
    /\ StoreIdle
    /\ FilesIdle
    /\ AwaitIdle
    /\ TextIdle
    /\ RunIdle
    /\ ReconIdle
    /\ LedgerIdle
    /\ SaveIdle
    /\ dDocument \in Documents
    /\ dPc = "uploaded"
    /\ dOut = NoType

\* detectPDFType(buffer)
Detect ==
    /\ dPc = "uploaded"
    /\ dOut' = detectPDFType(extractTextFromPDF(dDocument))
    /\ dPc' = "detected"
    /\ UNCHANGED dDocument
    /\ UNCHANGED notDetectVars

NextDetect == Detect

SpecDetect == InitDetect /\ [][NextDetect]_vars

(***************************************************************************)
(* POST /api/process in its two variants (process/route.ts, which does the *)
(* work itself, and the route that marks the conversion and hands the work *)
(* to POST /api/process-background), on one conversion.  Every awaited     *)
(* call on the database or the storage either answers or rejects; each     *)
(* action is one request up to its next await.                             *)
(***************************************************************************)
MaxRequests == 2
Requests == 1..MaxRequests

\* what the routes read of processDocument's answer: transactions.length
\* (success holds exactly when it is positive) and pageCount
ProcessingResults ==
    {[rows |-> n, pageCount |-> IF n = 0 THEN 1 ELSE n] : n \in 0..MaxPages}

NewRequest ==
    [route |-> "none", pc |-> "idle", rows |-> 0, pageCount |-> 0, read |-> 0,
     counted |-> FALSE, marks |-> << >>]

InitStore ==
    /\ GuestIdle
    /\ RunIdle
    /\ ReconIdle
    /\ LedgerIdle
    /\ SaveIdle
    /\ TextIdle
    /\ AwaitIdle
    /\ FilesIdle
    /\ DetectIdle
    /\ cStatus = "pending"
    /\ txs = {}
    /\ summaries = {}
    /\ pagesUsed = 0
    /\ req = [r \in Requests |-> NewRequest]

\* the rows request r has in the transactions table
RowsOf(r) == {t \in txs : t.run = r}

\* where a rejected call leaves the request: process/route.ts answers 500
\* from its catch block, process-background goes to its catch block
Thrown(r) == IF req[r].route = "background" THEN "catch" ELSE "returned"

\* updateConversionStatus(adminSupabase, conversionId, status) by request r,
\* which goes on at position next
updateConversionStatus(r, status, next) ==
    /\ cStatus' = status
    /\ req' = [req EXCEPT ![r].pc = next,
                          ![r].marks = Append(@, [status |-> status,
                                                  stored |-> RowsOf(r) # {} /\ r \in summaries])]

\* the request up to the ownership check
Post(r) ==
    /\ req[r].pc = "idle"
    /\ \E route \in {"sync", "async"} :
          req' = [req EXCEPT ![r].route = route, ![r].pc = "mark"]
    /\ UNCHANGED <<cStatus, txs, summaries, pagesUsed>>
    /\ UNCHANGED notStoreVars

MarkProcessing(r) ==
    /\ req[r].pc = "mark"
    /\ \/ updateConversionStatus(r, "processing",
              IF req[r].route = "sync" THEN "download" ELSE "dispatch")
       \/ /\ req' = [req EXCEPT ![r].pc = "returned"]
          /\ UNCHANGED cStatus
    /\ UNCHANGED <<txs, summaries, pagesUsed>>
    /\ UNCHANGED notStoreVars

\* fetch(`${baseUrl}/api/process-background`): the background request starts,
\* or the fetch rejects and the rejection is logged
Dispatch(r) ==
    /\ req[r].pc = "dispatch"
    /\ \/ req' = [req EXCEPT ![r].route = "background", ![r].pc = "download"]
       \/ req' = [req EXCEPT ![r].pc = "returned"]
    /\ UNCHANGED <<cStatus, txs, summaries, pagesUsed>>
    /\ UNCHANGED notStoreVars

Download(r) ==
    /\ req[r].pc = "download"
    /\ \/ req' = [req EXCEPT ![r].pc = "process"]
       \/ req' = [req EXCEPT ![r].pc = IF req[r].route = "sync" THEN "fail" ELSE "catch"]
    /\ UNCHANGED <<cStatus, txs, summaries, pagesUsed>>
    /\ UNCHANGED notStoreVars

Process(r) ==
    /\ req[r].pc = "process"
    /\ \E p \in ProcessingResults :
          req' = [req EXCEPT ![r].rows = p.rows,
                             ![r].pageCount = p.pageCount,
                             ![r].pc = IF p.rows = 0 THEN "fail"
                                       ELSE IF req[r].route = "sync" THEN "read"
                                       ELSE "insert"]
    /\ UNCHANGED <<cStatus, txs, summaries, pagesUsed>>
    /\ UNCHANGED notStoreVars

\* incrementPagesUsed, first await: the select of pages_used_this_month
ReadPagesUsed(r) ==
    /\ req[r].pc = "read"
    /\ \/ req' = [req EXCEPT ![r].read = pagesUsed, ![r].pc = "write"]
       \/ req' = [req EXCEPT ![r].pc = Thrown(r)]
    /\ UNCHANGED <<cStatus, txs, summaries, pagesUsed>>
    /\ UNCHANGED notStoreVars

\* incrementPagesUsed, second await: the update with newCount
WritePagesUsed(r) ==
    /\ req[r].pc = "write"
    /\ \/ /\ pagesUsed' = req[r].read + req[r].pageCount
          /\ req' = [req EXCEPT ![r].counted = TRUE,
                                ![r].pc = IF req[r].route = "sync" THEN "insert"
                                          ELSE "returned"]
       \/ /\ req' = [req EXCEPT ![r].pc = Thrown(r)]
          /\ UNCHANGED pagesUsed
    /\ UNCHANGED <<cStatus, txs, summaries>>
    /\ UNCHANGED notStoreVars

\* createTransactions: one insert of all the rows, row_index from 0
createTransactions(r) ==
    /\ req[r].pc = "insert"
    /\ \/ /\ txs' = txs \cup {[run |-> r, row_index |-> i] : i \in 0..(req[r].rows - 1)}
          /\ req' = [req EXCEPT ![r].pc = "results"]
       \/ /\ req' = [req EXCEPT ![r].pc = Thrown(r)]
          /\ UNCHANGED txs
    /\ UNCHANGED <<cStatus, summaries, pagesUsed>>
    /\ UNCHANGED notStoreVars

\* updateConversionResults with the summary of the run; process/route.ts
\* sets status 'completed' in the same update
updateConversionResults(r) ==
    /\ req[r].pc = "results"
    /\ \/ /\ summaries' = summaries \cup {r}
          /\ IF req[r].route = "sync"
             THEN /\ cStatus' = "completed"
                  /\ req' = [req EXCEPT ![r].pc = "returned",
                                        ![r].marks = Append(@, [status |-> "completed",
                                                                stored |-> RowsOf(r) # {}])]
             ELSE /\ req' = [req EXCEPT ![r].pc = "complete"]
                  /\ UNCHANGED cStatus
       \/ /\ req' = [req EXCEPT ![r].pc = Thrown(r)]
          /\ UNCHANGED <<cStatus, summaries>>
    /\ UNCHANGED <<txs, pagesUsed>>
    /\ UNCHANGED notStoreVars

\* process-background: updateConversionStatus(..., 'completed')
MarkCompleted(r) ==
    /\ req[r].pc = "complete"
    /\ \/ updateConversionStatus(r, "completed", "read")
       \/ /\ req' = [req EXCEPT ![r].pc = "catch"]
          /\ UNCHANGED cStatus
    /\ UNCHANGED <<txs, summaries, pagesUsed>>
    /\ UNCHANGED notStoreVars

\* the branch of a failed download or extraction
MarkFailed(r) ==
    /\ req[r].pc = "fail"
    /\ \/ updateConversionStatus(r, "failed",
              IF req[r].route = "sync" THEN "returned" ELSE "failResults")
       \/ /\ req' = [req EXCEPT ![r].pc = Thrown(r)]
          /\ UNCHANGED cStatus
    /\ UNCHANGED <<txs, summaries, pagesUsed>>
    /\ UNCHANGED notStoreVars

\* process-background: updateConversionResults with the error message
UpdateFailureResults(r) ==
    /\ req[r].pc = "failResults"
    /\ \/ req' = [req EXCEPT ![r].pc = "returned"]
       \/ req' = [req EXCEPT ![r].pc = "catch"]
    /\ UNCHANGED <<cStatus, txs, summaries, pagesUsed>>
    /\ UNCHANGED notStoreVars

\* the catch block of process-background: mark as failed, a rejection of
\* that update being swallowed
CatchBackground(r) ==
    /\ req[r].pc = "catch"
    /\ \/ updateConversionStatus(r, "failed", "returned")
       \/ /\ req' = [req EXCEPT ![r].pc = "returned"]
          /\ UNCHANGED cStatus
    /\ UNCHANGED <<txs, summaries, pagesUsed>>
    /\ UNCHANGED notStoreVars

NextStore ==
    \E r \in Requests :
        \/ Post(r)
        \/ MarkProcessing(r)
        \/ Dispatch(r)
        \/ Download(r)
        \/ Process(r)
        \/ ReadPagesUsed(r)
        \/ WritePagesUsed(r)
        \/ createTransactions(r)
        \/ updateConversionResults(r)
        \/ MarkCompleted(r)
        \/ MarkFailed(r)
        \/ UpdateFailureResults(r)
        \/ CatchBackground(r)

SpecStore == InitStore /\ [][NextStore]_vars

\* every request that can take a step takes one: the runtime runs each
\* handler to its response
FairStore == SpecStore /\ WF_vars(NextStore)

(***************************************************************************)
(* getOrCreateGuestUser (guest-manager), called concurrently in one server *)
(* process.  Each action is one call up to its next await; the auth        *)
(* service keeps e-mail addresses unique, so createUser on a registered    *)
(* address answers with an error.                                          *)
(***************************************************************************)
MaxGuestCalls == 3
GuestCalls == 1..MaxGuestCalls

\* null
NoUser == 0

\* the id the auth service gives the account it creates
NewUserId == Cardinality(guests) + 1

NewCall == [pc |-> "idle", id |-> NoUser, listError |-> FALSE]

InitGuest ==
    /\ RunIdle
    /\ ReconIdle
    /\ LedgerIdle
    /\ SaveIdle
    /\ TextIdle
    /\ AwaitIdle
    /\ FilesIdle
    /\ DetectIdle
    /\ StoreIdle
    /\ cachedGuestUserId = NoUser
    /\ guests = {}
    /\ profiles = {}
    /\ assigned = {}
    /\ gCall = [c \in GuestCalls |-> NewCall]

\* line 9: the cached id is returned, or listUsers is awaited
EnterGuest(c) ==
    /\ gCall[c].pc = "idle"
    /\ IF cachedGuestUserId # NoUser
       THEN gCall' = [gCall EXCEPT ![c].pc = "returned", ![c].id = cachedGuestUserId]
       ELSE gCall' = [gCall EXCEPT ![c].pc = "list"]
    /\ UNCHANGED <<cachedGuestUserId, guests, profiles, assigned>>
    /\ UNCHANGED notGuestVars

\* lines 12-22: listUsers answers with the accounts there are, or with an
\* error; an existing guest account is cached and its profile looked up
ListUsers(c) ==
    /\ gCall[c].pc = "list"
    /\ \/ /\ guests # {}
          /\ \E existing \in guests :
                /\ cachedGuestUserId' = existing
                /\ assigned' = assigned \cup {existing}
                /\ gCall' = [gCall EXCEPT ![c].pc = "profile", ![c].id = existing]
       \/ /\ guests = {}
          /\ gCall' = [gCall EXCEPT ![c].pc = "create"]
          /\ UNCHANGED <<cachedGuestUserId, assigned>>
       \/ /\ gCall' = [gCall EXCEPT ![c].pc = "create", ![c].listError = TRUE]
          /\ UNCHANGED <<cachedGuestUserId, assigned>>
    /\ UNCHANGED <<guests, profiles>>
    /\ UNCHANGED notGuestVars

\* lines 25-38: createUser; its error is thrown as 'Failed to initialize
\* guest system', its account is cached
CreateUser(c) ==
    /\ gCall[c].pc = "create"
    /\ IF guests # {}
       THEN /\ gCall' = [gCall EXCEPT ![c].pc = "failed"]
            /\ UNCHANGED <<cachedGuestUserId, guests, assigned>>
       ELSE /\ guests' = guests \cup {NewUserId}
            /\ cachedGuestUserId' = NewUserId
            /\ assigned' = assigned \cup {NewUserId}
            /\ gCall' = [gCall EXCEPT ![c].pc = "profile", ![c].id = NewUserId]
    /\ UNCHANGED profiles
    /\ UNCHANGED notGuestVars

\* ensureProfileExists: the select of the profile
SelectProfile(c) ==
    /\ gCall[c].pc = "profile"
    /\ gCall' = [gCall EXCEPT ![c].pc = IF gCall[c].id \in profiles THEN "returned"
                                        ELSE "insert"]
    /\ UNCHANGED <<cachedGuestUserId, guests, profiles, assigned>>
    /\ UNCHANGED notGuestVars

\* ensureProfileExists: the insert, whose error (the row is there by now)
\* is not looked at
InsertProfile(c) ==
    /\ gCall[c].pc = "insert"
    /\ profiles' = profiles \cup {gCall[c].id}
    /\ gCall' = [gCall EXCEPT ![c].pc = "returned"]
    /\ UNCHANGED <<cachedGuestUserId, guests, assigned>>
    /\ UNCHANGED notGuestVars

NextGuest ==
    \E c \in GuestCalls :
        \/ EnterGuest(c)
        \/ ListUsers(c)
        \/ CreateUser(c)
        \/ SelectProfile(c)
        \/ InsertProfile(c)

SpecGuest == InitGuest /\ [][NextGuest]_vars

(***************************************************************************)
(* Properties of a processDocument run                                     *)
(***************************************************************************)
Range(q) == {q[i] : i \in 1..Len(q)}

Done == pc = "done"

Strategies == {attempts[i].strategy : i \in 1..Len(attempts)}

\* the messages a strategy can report, by the strategy they come from
MessagesNaming(strategy) ==
    IF strategy = "gemini"
    THEN {"Gemini extraction failed: " \o g.error : g \in {a \in GeminiAnswers : ~a.success}}
    ELSE IF strategy = "native"
    THEN {"Extraction failed: " \o t.error : t \in {l \in TextLayers : ~l.success}}
    ELSE {"OCR extraction failed: " \o o.error : o \in {a \in OcrAnswers : a.kind = "down"}}
         \cup UNION {Range(o.errors) : o \in OcrAnswers \cup GmftAnswers}

\* C1: every strategy attempt of the run that failed or reported errors has
\* one of the messages it reported in the errors of the returned outcome.
EveryAttemptErrorReturned ==
    Done => \A i \in 1..Len(attempts) :
                attempts[i].errors # << >> =>
                    Range(attempts[i].errors) \cap Range(result.errors) # {}

\* C2: when every strategy attempted in the run yielded zero transactions,
\* the outcome has success = false and its errors name each attempted
\* strategy.
EmptyRunNamesStrategies ==
    (Done /\ attempts # << >> /\ \A i \in 1..Len(attempts) : attempts[i].rows = 0)
        => /\ ~result.success
           /\ \A s \in Strategies : Range(result.errors) \cap MessagesNaming(s) # {}

\* C3: a returned outcome has success = true exactly when its transaction
\* list is non-empty, and a returned outcome with success = false has a
\* non-empty errors list, on the normal path and after a caught exception.
FinalRows == Len(result.transactions)

TerminalOutcome ==
    Done => /\ result.success <=> FinalRows > 0
            /\ ~result.success => result.errors # << >>

CaughtRunReturned == Done /\ thrown # "" /\ ~result.success /\ attempts # << >>

\* C4: no strategy is invoked twice within one run.
NoStrategyTwice ==
    \A i, j \in 1..Len(attempts) :
        i # j => attempts[i].strategy # attempts[j].strategy

\* C5: with the vision strategy available and not yet used, a result whose
\* confidence is below the threshold, or whose stated balances do not
\* reconcile, is not returned: the run escalates first.
BalancesStated(r) == ~r.openingBalance.isNull /\ ~r.closingBalance.isNull

Escalations == {i \in 1..Len(attempts) : attempts[i].step # "route"}

BoundedRun ==
    /\ [](Len(attempts) <= 3 /\ Cardinality(Escalations) <= 2)
    /\ <>Done

TwoEscalationsReturned == Done /\ Len(attempts) = 3 /\ Cardinality(Escalations) = 2

\* C7: the result of an escalation replaces the current result only if it
\* is strictly better, that is it has a higher confidence or it reconciles
\* where the current result did not; otherwise the current result is kept
\* as it was and the returned outcome carries the warning of the escalation.
Verdict(c) == runReconciliation(c.transactions, c.openingBalance, c.closingBalance)

StrictlyBetter(new, old) ==
    \/ new.confidence > old.confidence
    \/ Verdict(new).isReconciled /\ ~Verdict(old).isReconciled

CloserToReconciling(new, old) ==
    /\ ~Verdict(new).difference.isNull
    /\ ~Verdict(old).difference.isNull
    /\ FLess(FAbs(Verdict(new).difference), FAbs(Verdict(old).difference))

EscalationWarning(a) ==
    IF a.step = "confidence" THEN LowConfidenceWarning(a.prior) ELSE ReExtractionWarning

Replaced(a) == a.after # a.prior

MergePolicy(Better(_, _)) ==
    \A i \in Escalations :
        LET a == attempts[i]
        IN  /\ a.after \in {a.prior, [a.returned EXCEPT !.method = "hybrid"]}
            /\ Replaced(a) => Better(a.returned, a.prior)
            /\ (~Replaced(a) /\ Done) => EscalationWarning(a) \in Range(result.warnings)

BetterOrCloser(new, old) == StrictlyBetter(new, old) \/ CloserToReconciling(new, old)

EveryWarningReturned ==
    Done => /\ \A i \in 1..Len(attempts) :
                   Range(attempts[i].warnings) \subseteq Range(result.warnings)
            /\ Range(warnings) \subseteq Range(result.warnings)

(***************************************************************************)
(* Properties of the reconciliation                                        *)
(***************************************************************************)
Reconciled == rPc = "reconciled"

BalanceMissing == rOpening.isNull \/ rClosing.isNull

\* C9: with a null opening or closing balance the verdict is isReconciled =
\* false, calculatedClosing = null, difference = null, whatever the rows,
\* and nothing is added to the diagnostics of the run; with both balances
\* stated the difference is a number.
UnknownBalanceVerdict ==
    Reconciled =>
        LET v == rOut.reconciliation
        IN  IF BalanceMissing
            THEN /\ ~v.isReconciled
                 /\ v.calculatedClosing.isNull
                 /\ v.difference.isNull
                 /\ rOut.warnings = << >>
                 /\ rOut.result.errors = << >>
            ELSE ~v.difference.isNull

UnknownBalanceReconciled == Reconciled /\ rOpening.isNull /\ ~rClosing.isNull /\ Len(rRows) >= 2

\* the statement's arithmetic in exact cents
SignedCents(row) ==
    IF row.amount.isNull THEN 0
    ELSE LET c == row.amount.cents
             abs == IF c < 0 THEN 0 - c ELSE c
         IN  IF row.type = "credit" THEN abs
             ELSE IF row.type = "debit" THEN 0 - abs
             ELSE c

RECURSIVE NetCents(_, _)
NetCents(rows, i) == IF i > Len(rows) THEN 0 ELSE SignedCents(rows[i]) + NetCents(rows, i + 1)

\* C10: with both balances stated, calculatedClosing is opening + credits -
\* debits to the cent, isReconciled holds exactly when it is less than one
\* cent from the stated closing balance, and difference is that distance.
ExactCentVerdict ==
    (Reconciled /\ ~BalanceMissing) =>
        LET v == rOut.reconciliation
            exact == rOpening.cents + NetCents(rRows, 1)
            gap == IF exact >= rClosing.cents THEN exact - rClosing.cents
                                              ELSE rClosing.cents - exact
        IN  /\ v.calculatedClosing = FromCents(exact)
            /\ v.isReconciled <=> gap < 1
            /\ v.difference = FromCents(gap)

\* the credited and the debited cents of the statement, each as a magnitude
CreditCents(row) == IF SignedCents(row) > 0 THEN SignedCents(row) ELSE 0
DebitCents(row) == IF SignedCents(row) < 0 THEN 0 - SignedCents(row) ELSE 0

RECURSIVE TotalCents(_, _, _)
TotalCents(Part(_), rows, i) ==
    IF i > Len(rows) THEN 0 ELSE Part(rows[i]) + TotalCents(Part, rows, i + 1)

TypeOK == pc \in Positions
(***************************************************************************)
(* Properties of reconcileTransactions                                     *)
(***************************************************************************)
LedgerReconciled == lPc = "reconciled"

\* a stored row's credit minus debit, in exact cents
StoredCents(tx) ==
    LET cents(x) == IF x.isNull THEN 0 ELSE MathRound(FMul100(x))
    IN  cents(tx.credit) - cents(tx.debit)

ClosingCents(v) == MathRound(FMul100(v.calculatedClosing))

Saved == sPc = "saved"

\* C12: no saved row has both debit and credit filled, whatever the type
\* and the amount of the transaction it was made from.
DebitCreditExclusive ==
    Saved => \A i \in 1..Len(sRows) : sRows[i].debit.isNull \/ sRows[i].credit.isNull

SavedDebitOfNegativeCredit ==
    /\ Saved
    /\ \E i \in 1..Len(sRows) :
         /\ sRaw[i].type = "credit"
         /\ ~sRaw[i].amount.isNull /\ sRaw[i].amount.cents < 0
         /\ ~sRows[i].debit.isNull
         /\ sRows[i].credit.isNull

\* |amount| of a transaction, in cents
AbsCents(d) == IF d.cents < 0 THEN 0 - d.cents ELSE d.cents

\* C13: a transaction with a non-zero amount is saved with exactly one of
\* debit and credit filled, holding the absolute amount; a transaction whose
\* amount is zero or null is saved with both empty, whatever its type.
AmountInExactlyOneField ==
    Saved =>
        \A i \in 1..Len(sRows) :
            IF sRaw[i].amount.isNull \/ sRaw[i].amount.cents = 0
            THEN sRows[i].debit.isNull /\ sRows[i].credit.isNull
            ELSE /\ sRows[i].debit.isNull # sRows[i].credit.isNull
                 /\ FromCents(AbsCents(sRaw[i].amount))
                        \in {sRows[i].debit, sRows[i].credit}

\* C14: a transaction with confidence 0 is saved with confidence score 0,
\* and one with a confidence of k hundredths with the score 100 * k/100.
ZeroConfidenceStaysZero ==
    Saved =>
        \A i \in 1..Len(sRows) :
            ~sRaw[i].confidence.isNull =>
                /\ MathRound(sRows[i].confidence_score) = sRaw[i].confidence.cents
                /\ sRaw[i].confidence.cents = 0 => sRows[i].confidence_score = Zero
                /\ ~FLess(Hundred, sRows[i].confidence_score)

SavedZeroConfidence ==
    /\ Saved
    /\ \E i \in 1..Len(sRows) :
         ~sRaw[i].confidence.isNull /\ sRaw[i].confidence.cents = 0
    /\ \E i \in 1..Len(sRows) :
         ~sRaw[i].confidence.isNull /\ sRaw[i].confidence.cents = 7

(***************************************************************************)
(* Properties of the native extractor                                      *)
(***************************************************************************)
TextExtracted == tPc = "extracted"

\* the written rows that carry both an amount and a running balance
TwoColumnRows ==
    {i \in 1..Len(tWritten) : tWritten[i].kind = "transaction"
                              /\ tWritten[i].balanceColumn # NoColumn}

\* the transaction parsed from the written line i, if there is one
ParsedFrom(i) == {k \in 1..Len(tOut.transactions) : tOut.transactions[k].rawText = tWritten[i].text}

\* C15: a line with an amount column followed by a running-balance column
\* (as '01/15/2024 GROCERY STORE 45.00 1,234.56') is parsed with the amount
\* column as its amount, not the balance column.
AmountIsAmountColumn ==
    TextExtracted =>
        \A i \in TwoColumnRows : \A k \in ParsedFrom(i) :
            FAbs(tOut.transactions[k].amount) = FromCents(tWritten[i].amountColumn)

\* the closing balances the text states under the explicit label, in order
RECURSIVE ClosingStated(_)
ClosingStated(written) ==
    IF written = << >> THEN << >>
    ELSE (IF written[1].kind = "closing" THEN <<written[1].amountColumn>> ELSE << >>)
         \o ClosingStated(Tail(written))

\* C16: of several closing-balance candidates extractBalances returns the
\* last one, not the numerically largest.
ClosingIsLastCandidate ==
    TextExtracted /\ ClosingStated(tWritten) # << >> =>
        tOut.closingBalance
            = FromCents(ClosingStated(tWritten)[Len(ClosingStated(tWritten))])

(***************************************************************************)
(* Properties of processWithGemini                                         *)
(***************************************************************************)
\* the accounts of a list that carry a number in a balance field
Carrying(accounts, field) == {k \in 1..Len(accounts) : ~accounts[k][field].isNull}

\* the sum of a balance field over those accounts, in the order of the list
RECURSIVE AccountsTotal(_, _, _)
AccountsTotal(accounts, field, n) ==
    IF n = 0 THEN Zero
    ELSE IF accounts[n][field].isNull THEN AccountsTotal(accounts, field, n - 1)
    ELSE FAdd(AccountsTotal(accounts, field, n - 1), accounts[n][field])

RECURSIVE AccountRows(_, _)
AccountRows(accounts, n) ==
    IF n = 0 THEN 0 ELSE AccountRows(accounts, n - 1) + Len(accounts[n].transactions)

GeminiReturns == {i \in 1..Len(attempts) : attempts[i].strategy = "gemini" /\ ~attempts[i].failed}

\* C17: processWithGemini yields one flat list of rows, and an opening
\* (closing) balance that is the sum of the per-account opening (closing)
\* balances whenever an account carries one, whatever isMultiAccount and
\* the root-level balances are; it is null when neither the root nor any
\* account carries one.
GeminiBalanceIsAccountsTotal ==
    \A i \in GeminiReturns :
        LET data == attempts[i].given
        IN  /\ attempts[i].rows = IF Len(data.transactions) > 0 THEN Len(data.transactions)
                                  ELSE AccountRows(data.accounts, Len(data.accounts))
            /\ \A field \in {"openingBalance", "closingBalance"} :
                  /\ Carrying(data.accounts, field) # {} =>
                        attempts[i].returned[field]
                            = AccountsTotal(data.accounts, field, Len(data.accounts))
                  /\ Carrying(data.accounts, field) = {} /\ data[field].isNull =>
                        attempts[i].returned[field].isNull

(***************************************************************************)
(* Properties of the classification and the routing                        *)
(***************************************************************************)
Unreadable == textLayer.raised \/ ~textLayer.success

\* C18: when reading the text layer fails or throws, detectPDFType does not
\* raise but answers native with confidence 0.3, and the run goes on to
\* invoke at least one extraction strategy.
UnreadableStillExtracted ==
    /\ [](Unreadable /\ pc # "detect" =>
            /\ pdfType.type = "native"
            /\ pdfType.confidence = 30
            /\ thrown = ""
            /\ pc # "route" => attempts # << >>)
    /\ (Unreadable ~> attempts # << >>)

UnreadableRunDone ==
    /\ Unreadable
    /\ Done
    /\ pdfType.type = "native"
    /\ pdfType.confidence = 30
    /\ attempts # << >>

Routed == pc \notin {"detect", "route"}

\* C19: the first strategy of a run is Gemini whenever the key is set and
\* native is not forced, whatever the classification; without the key it is
\* the native extractor for a native classification and the OCR worker for
\* a scanned one, and Gemini is invoked at no later step of the run.
FirstStrategyByAvailability ==
    Routed =>
        /\ attempts # << >>
        /\ opts.geminiKey /\ opts.forceMethod # "native" => attempts[1].strategy = "gemini"
        /\ ~opts.geminiKey =>
              /\ attempts[1].strategy = IF pdfType.type = "native" THEN "native" ELSE "ocr"
              /\ \A i \in 1..Len(attempts) : attempts[i].strategy # "gemini"

\* a run without the key that went through both escalation conditions
ScannedRunWithoutGemini ==
    /\ Done
    /\ ~opts.geminiKey
    /\ pdfType.type = "scanned"
    /\ attempts[1].strategy = "ocr"
    /\ \E i \in 1..Len(warnings), j \in 1..Len(warnings) :
          /\ warnings[i] = LowConfidenceWarning(attempts[1].returned)
          /\ i < j

\* the verdict of runReconciliation on the data a result carries
OwnVerdict(r) == runReconciliation(r.transactions, r.openingBalance, r.closingBalance)

\* the result carries the verdict of its own rows and balances
CarriesOwnVerdict(r) ==
    /\ r.isReconciled = OwnVerdict(r).isReconciled
    /\ r.calculatedClosing = OwnVerdict(r).calculatedClosing
    /\ r.reconciliationDifference = OwnVerdict(r).difference

\* C20: with reconciliation enabled, a run whose strategies returned ends
\* with the reconciliation of what they returned computed, also when the
\* result is partial or empty; and a result with no transactions whose
\* opening and closing balance are both stated is not reconciled.
ReconciledBeforeReturn ==
    Done /\ opts.enableReconciliation /\ thrown = "" =>
        /\ attempts # << >>
        /\ CarriesOwnVerdict(result)
        /\ Len(result.transactions) = 0 /\ BalancesStated(result) => ~result.isReconciled

(***************************************************************************)
(* Properties of the external calls                                        *)
(***************************************************************************)
\* C21: every external strategy call is bounded: when the backend never
\* answers, the call the run awaits is ended, the run reports an error and
\* reaches its terminal outcome.
AwaitedCallEnds == (waiting # "none") ~> (Done /\ result.errors # << >>)

(***************************************************************************)
(* Properties of the temporary files                                       *)
(***************************************************************************)
Named(c) == fName[c] # NoName

AverageAbove(n) == dDocument.chars > n * dDocument.pageCount

\* C23: detectPDFType classifies by the average number of characters per
\* page: native above 500; scanned up to 500, with quality good above 200
\* and poor up to 200, and with text above 50 and without up to 50.
ClassifiedByAverage ==
    dPc = "detected" =>
        IF AverageAbove(500) THEN dOut.type = "native"
        ELSE /\ dOut.type = "scanned"
             /\ dOut.scanQuality = IF AverageAbove(200) THEN "good" ELSE "poor"
             /\ dOut.hasText = AverageAbove(50)

ProcessingEnds == (cStatus = "processing") ~> (cStatus \in {"completed", "failed"})

BackgroundRuns == {r \in Requests : req[r].route = "background"}

\* C27: a background run marks 'completed' only with its transactions and
\* its result summary stored, never marks 'failed' after 'completed', and has
\* no transactions stored when it ends marking 'failed'.
BackgroundRunOrdered ==
    \A r \in BackgroundRuns :
        LET marks == req[r].marks
        IN  /\ \A i \in 1..Len(marks) : marks[i].status = "completed" => marks[i].stored
            /\ \A i, j \in 1..Len(marks) :
                   (i < j /\ marks[i].status = "completed") => marks[j].status # "failed"
            /\ (req[r].pc = "returned" /\ marks[Len(marks)].status = "failed")
                   => RowsOf(r) = {}

\* C28: with no request under way, the stored transactions of the
\* conversion are the rows of one run: no row_index is stored twice.
Quiet == req # << >> /\ \A r \in Requests : req[r].pc \in {"idle", "returned"}

OneRowPerIndex ==
    Quiet => \A a, b \in txs : a.row_index = b.row_index => a = b

RECURSIVE PagesCounted(_)
PagesCounted(r) ==
    IF r = 0 THEN 0
    ELSE (IF req[r].counted THEN req[r].pageCount ELSE 0) + PagesCounted(r - 1)

\* C29: pages_used_this_month is the sum of the page counts of the
\* incrementPagesUsed calls that have returned.
NoLostUpdate == req # << >> => pagesUsed = PagesCounted(MaxRequests)

(***************************************************************************)
(* Properties of getOrCreateGuestUser                                      *)
(***************************************************************************)
\* C30: concurrent calls that start with an empty cache and no guest
\* account all return the same id, create at most one guest account, and
\* none whose listUsers answered fails with 'Failed to initialize guest
\* system'; the cache, once set, is never given another value.
OneGuestForAll ==
    gCall # << >> =>
        /\ \A c, d \in GuestCalls :
               (gCall[c].pc = "returned" /\ gCall[d].pc = "returned")
                   => gCall[c].id = gCall[d].id
        /\ Cardinality(guests) <= 1
        /\ \A c \in GuestCalls : gCall[c].pc = "failed" => gCall[c].listError
        /\ Cardinality(assigned) <= 1

====
